---- MODULE Spec2Model ----
(***************************************************************************)
(* Model of radarpub: the SMS UDP cube reassembler (src/src/eth.rs) and    *)
(* the UATv4 CAN request engine (src/src/can.rs).                          *)
(*                                                                         *)
(* Byte slices are sequences of 0..255.  Rust slices are 0-based, TLA+     *)
(* sequences 1-based: At(s, i) is slice[i].                                *)
(***************************************************************************)
EXTENDS Integers, Sequences, FiniteSets, TLC

VARIABLES reader, ret, crashed, hist, can, msg, stream, net, cubes, win, pubs,
          clus

vars == <<reader, ret, crashed, hist, can, msg, stream, net, cubes, win, pubs,
          clus>>

(***************************************************************************)
(* Program constants of eth.rs                                             *)
(***************************************************************************)
START_PATTERN == 126
MIN_LEN == 12
CRC_LEN == 2
DEBUG_LEN == 8
PORT_LEN == 24
CUBE_LEN == 40
BIN_LEN == 12
FRAME_DATA == 0
START_OF_FRAME == 1
END_OF_DATA == 2
FRAME_FOOTER == 3
SENTINEL == 32767
\* fixed size of the SMS UDP packets: the size of a receive slot
SMS_PACKET_SIZE == 1458
U16 == 65536

(***************************************************************************)
(* Byte helpers                                                            *)
(***************************************************************************)
At(s, i) == s[i + 1]

\* slice[from..] of a Rust slice
From(s, from) == SubSeq(s, from + 1, Len(s))

Bit(b, mask) == (b \div mask) % 2 = 1

BE16(hi, lo) == hi * 256 + lo

\* u32::from_be_bytes; the model's inputs keep the top byte below 128
BE32(b0, b1, b2, b3) == (b0 * 256 + b1) * 65536 + b2 * 256 + b3

\* i16::from_be_bytes / i8::from_be_bytes: two's complement
I16(hi, lo) == IF BE16(hi, lo) >= 32768 THEN BE16(hi, lo) - 65536 ELSE BE16(hi, lo)

I8(b) == IF b >= 128 THEN b - 256 ELSE b

(***************************************************************************)
(* SMSError values: a record for every variant, a and b its payload.       *)
(***************************************************************************)
NoErr == [kind |-> "none", a |-> 0, b |-> 0]

Err0(k) == [kind |-> k, a |-> 0, b |-> 0]

Err1(k, x) == [kind |-> k, a |-> x, b |-> 0]

Err2(k, x, y) == [kind |-> k, a |-> x, b |-> y]

(***************************************************************************)
(* TransportHeaderSlice                                                    *)
(***************************************************************************)
message_counter_size(s) == IF Bit(At(s, 9), 1) THEN 2 ELSE 0

client_id_size(s) == IF Bit(At(s, 9), 8) THEN 4 ELSE 0

data_id_size(s) == IF Bit(At(s, 9), 32) THEN 2 ELSE 0

segmentation_size(s) == IF Bit(At(s, 9), 64) THEN 2 ELSE 0

crc_offset(s) ==
    MIN_LEN - CRC_LEN + message_counter_size(s) + client_id_size(s)
        + data_id_size(s) + segmentation_size(s)

\* TransportHeaderSlice::len
header_len(s) ==
    MIN_LEN + message_counter_size(s) + client_id_size(s)
        + data_id_size(s) + segmentation_size(s)

\* TransportHeaderSlice::from_slice: NoErr when the slice is accepted
TransportHeaderSlice_from_slice(s) ==
    IF Len(s) < MIN_LEN THEN Err1("UnexpectedEndOfSlice", Len(s))
    ELSE IF At(s, 0) # START_PATTERN THEN Err1("StartPattern", At(s, 0))
    ELSE IF crc_offset(s) + CRC_LEN > Len(s) THEN Err1("UnexpectedEndOfSlice", Len(s))
    ELSE IF crc_offset(s) + CRC_LEN # At(s, 2) THEN Err1("UnexpectedEndOfSlice", Len(s))
    ELSE IF Len(s) < At(s, 2) + BE16(At(s, 3), At(s, 4))
        THEN Err1("UnexpectedEndOfSlice", Len(s))
    ELSE NoErr

\* Option<Wrapping<u16>> as a sequence of length 0 or 1
message_counter(s) ==
    IF message_counter_size(s) > 0
    THEN <<BE16(At(s, MIN_LEN - CRC_LEN), At(s, MIN_LEN - CRC_LEN + 1))>>
    ELSE <<>>

application_protocol(s) == At(s, 5)

\* TransportHeaderSlice::payload: everything after the transport header
transport_payload(s) == From(s, header_len(s))

\* DebugHeaderSlice::from_slice
DebugHeaderSlice_from_slice(p) ==
    IF Len(p) < DEBUG_LEN THEN Err1("UnexpectedEndOfSlice", Len(p)) ELSE NoErr

\* TransportHeaderSlice::debug_header: the error, NoErr when present
debug_header_err(s) ==
    IF application_protocol(s) # 5 THEN Err0("DebugHeaderMissing")
    ELSE DebugHeaderSlice_from_slice(transport_payload(s))

\* the debug header slice (defined when debug_header_err is NoErr)
debug_header(s) == transport_payload(s)

debug_frame_counter(d) == BE32(At(d, 0), At(d, 1), At(d, 2), At(d, 3))

debug_flags(d) == At(d, 4)

\* DebugHeaderSlice::payload
debug_payload(d) == From(d, DEBUG_LEN)

\* PortHeaderSlice::from_slice
PortHeaderSlice_from_slice(p) ==
    IF Len(p) < PORT_LEN THEN Err1("UnexpectedEndOfSlice", Len(p)) ELSE NoErr

\* TransportHeaderSlice::port_header: [err, slice]
port_header(s) ==
    IF application_protocol(s) = 5 THEN
        IF debug_header_err(s) # NoErr THEN [err |-> debug_header_err(s), slice |-> <<>>]
        ELSE IF debug_flags(debug_header(s)) \in {1, 3} THEN
            [err |-> PortHeaderSlice_from_slice(From(transport_payload(s), DEBUG_LEN)),
             slice |-> From(transport_payload(s), DEBUG_LEN)]
        ELSE [err |-> Err0("PortHeaderMissing"), slice |-> <<>>]
    ELSE IF application_protocol(s) = 8 THEN
        [err |-> PortHeaderSlice_from_slice(transport_payload(s)),
         slice |-> transport_payload(s)]
    ELSE [err |-> Err0("PortHeaderMissing"), slice |-> <<>>]

\* PortHeaderSlice::id, compared as its four big-endian bytes
port_id_is(p, n) == SubSeq(p, 1, 4) = <<0, 0, 0, n>>

\* PortHeaderSlice::timestamp, kept as its eight big-endian bytes
port_timestamp(p) == SubSeq(p, 9, 16)

port_payload(p) == From(p, PORT_LEN)

\* TransportHeaderSlice::cube_header = port_header()?.cube_header()
cube_header(s) ==
    LET ph == port_header(s) IN
    IF ph.err # NoErr THEN [err |-> ph.err, slice |-> <<>>]
    ELSE IF ~port_id_is(ph.slice, 5) THEN [err |-> Err0("CubeHeaderMissing"), slice |-> <<>>]
    ELSE IF Len(port_payload(ph.slice)) < CUBE_LEN
        THEN [err |-> Err1("UnexpectedEndOfSlice", Len(port_payload(ph.slice))),
              slice |-> <<>>]
    ELSE [err |-> NoErr, slice |-> port_payload(ph.slice)]

\* TransportHeaderSlice::bin_properties = port_header()?.bin_properties()
bin_properties(s) ==
    LET ph == port_header(s) IN
    IF ph.err # NoErr THEN [err |-> ph.err, slice |-> <<>>]
    ELSE IF ~port_id_is(ph.slice, 63)
        THEN [err |-> Err0("BinPropertiesMissing"), slice |-> <<>>]
    ELSE IF Len(port_payload(ph.slice)) < BIN_LEN
        THEN [err |-> Err1("UnexpectedEndOfSlice", Len(port_payload(ph.slice))),
              slice |-> <<>>]
    ELSE [err |-> NoErr, slice |-> port_payload(ph.slice)]

\* CubeHeaderSlice::to_header, the fields the reader uses
to_header(c) ==
    [range_gates |-> I16(At(c, 24), At(c, 25)),
     doppler_bins |-> I16(At(c, 28), At(c, 29)),
     rx_channels |-> I8(At(c, 30)),
     chirp_types |-> I8(At(c, 31)),
     padding_bytes |-> I8(At(c, 39))]

\* CubeHeaderSlice::padding_bytes: slice[39] as usize
padding_bytes(c) == At(c, 39)

\* CubeHeaderSlice::payload is built from raw parts with length
\* len - (LEN + padding): defined only when that does not underflow
cube_payload_ok(c) == CUBE_LEN + padding_bytes(c) <= Len(c)

cube_payload(c) == From(c, CUBE_LEN + padding_bytes(c))

(***************************************************************************)
(* Elements: Complex<i16> as <<re, im>>.  A big-endian u32 word            *)
(* b0 b1 b2 b3 reinterpreted on a little-endian host: re is the low half,  *)
(* im the high half.                                                       *)
(***************************************************************************)
Sentinel == <<SENTINEL, SENTINEL>>

\* chunks_exact(4).map(u32::from_be_bytes) reinterpreted as Complex<i16>
chunks(p) ==
    [k \in 1..(Len(p) \div 4) |->
        <<I16(p[4 * k - 1], p[4 * k]), I16(p[4 * k - 3], p[4 * k - 2])>>]

(***************************************************************************)
(* RadarCubeReader.  Option<T> is a sequence of length 0 or 1.  usize      *)
(* values that come from a negative i8/i16 ("as usize") are kept as the    *)
(* negative number x standing for 2^64 + x.                                *)
(***************************************************************************)
Zero8 == <<0, 0, 0, 0, 0, 0, 0, 0>>

\* RadarCubeReader::new
new ==
    [timestamp |-> Zero8, frame_counter |-> 0, first_message |-> 0,
     message_counter |-> 0, received_messages |-> 0, packets_captured |-> 0,
     packets_skipped |-> 0, error |-> <<>>, cube_header |-> <<>>,
     cube_index |-> 0, cube_captured |-> 0, cube |-> <<>>]

\* Results of read: Ok(None), Ok(Some(cube)), Err(e)
RetNone == [tag |-> "None", err |-> NoErr, cube |-> <<>>]

RetErr(e) == [tag |-> "Err", err |-> e, cube |-> <<>>]

RetCube(c) == [tag |-> "Cube", err |-> NoErr, cube |-> <<c>>]

\* One outcome of a call: the reader afterwards, the value returned, and
\* crash = "none", or how the call ended the thread ("panic": a Rust panic,
\* "ub": undefined behaviour of an out-of-bounds slice built from raw parts)
Done(st, r) == [st |-> st, ret |-> r, crash |-> "none"]

Crash(st, k) == [st |-> st, ret |-> RetNone, crash |-> k]

\* RadarCubeReader::shape: [chirp_types, range_gates, rx_channels, doppler_bins]
shape(h) == <<h.chirp_types, h.range_gates, h.rx_channels, h.doppler_bins>>

\* a * b overflows u64 (operands as above)
MulOverflows(a, b) == (a < 0 /\ b \notin {0, 1}) \/ (b < 0 /\ a \notin {0, 1})

\* RadarCubeReader::volume: shape.iter().product(); v is the wrapped
\* product, ovf tells whether a multiplication overflowed on the way
volume(h) ==
    LET sh == shape(h)
        a1 == sh[1]
        a2 == a1 * sh[2]
        a3 == a2 * sh[3]
        a4 == a3 * sh[4]
    IN  [v |-> a4,
         ovf |-> MulOverflows(1, sh[1]) \/ MulOverflows(a1, sh[2])
                    \/ MulOverflows(a2, sh[3]) \/ MulOverflows(a3, sh[4])]

\* vec![fill; n]
Fill(n, x) == [i \in 1..n |-> x]

\* dst[at .. at + Len(src)] = src, dst a 1-based sequence and at 0-based
CopyInto(dst, at, src) ==
    [i \in 1..Len(dst) |->
        IF i > at /\ i <= at + Len(src) THEN src[i - at] ELSE dst[i]]

\* RadarCubeReader::start_of_frame
start_of_frame(self, s) ==
    LET ph == port_header(s)
        mc == message_counter(s)
        ch == cube_header(s)
        r1 == [new EXCEPT !.timestamp = port_timestamp(ph.slice),
                          !.frame_counter = debug_frame_counter(debug_header(s))]
    IN
    IF ph.err # NoErr THEN {Done(new, RetErr(ph.err))}
    ELSE IF mc = <<>> THEN {Crash(r1, "panic")}
    ELSE
    LET r2 == [r1 EXCEPT !.first_message = mc[1], !.message_counter = mc[1],
                         !.received_messages = 1]
    IN
    IF ch.err # NoErr THEN {Done(r2, RetErr(ch.err))}
    ELSE
    LET h == to_header(ch.slice)
        vol == volume(h)
        r3 == [r2 EXCEPT !.cube_header = <<h>>]
        data == chunks(cube_payload(ch.slice))
    IN
    \* debug builds panic on the overflowing multiplication
    (IF vol.ovf THEN {Crash(r3, "panic")} ELSE {})
    \cup
    \* vec! of 2^64 + v elements: capacity overflow
    (IF vol.v < 0 THEN {Crash(r3, "panic")}
     \* len - (LEN + padding) underflows: a panic with overflow checks on,
     \* an out-of-bounds slice without them
     ELSE IF ~cube_payload_ok(ch.slice) THEN {Crash(r3, "panic"), Crash(r3, "ub")}
     \* self.cube[..cube.len()]: range end out of bounds
     ELSE IF Len(data) > vol.v THEN {Crash(r3, "panic")}
     ELSE {Done([r3 EXCEPT !.cube = CopyInto(Fill(vol.v, Sentinel), 0, data),
                           !.cube_index = Len(data),
                           !.cube_captured = Len(data),
                           !.packets_captured = 1],
                RetNone)})

\* the same without dst.invert_axis(Axis(1))
ReshapeIndex_noinvert(sh, i) ==
    LET D == sh[4]
        middle == D \div 2
        dd == i % D
        sd == IF dd < middle THEN middle + dd ELSE dd - middle
    IN  (i \div D) * D + sd

\* Index into the stored buffer of the element the emitted tensor holds at
\* linear (row-major) index i of shape sh: the two halves of axis 3 are
\* swapped (split at middle = d / 2), then axis 1 is inverted.  0-based.
ReshapeIndex(sh, i) ==
    LET D == sh[4]
        X == sh[3]
        R == sh[2]
        middle == D \div 2
        dd == i % D
        x == (i \div D) % X
        r == (i \div (D * X)) % R
        c == i \div (D * X * R)
        sd == IF dd < middle THEN middle + dd ELSE dd - middle
    IN  ((c * R + (R - 1 - r)) * X + x) * D + sd

\* if self.frame_counter != debug_header.frame_counter() (frame_footer)
FooterCounterMismatch_never(self, s) == FALSE

FooterCounterMismatch(self, s) ==
    self.frame_counter # debug_frame_counter(debug_header(s))

\* a footer never finds the cube short
cube_short_never(self) == FALSE

\* if self.cube_index < self.cube.len()
cube_short(self) == self.cube_index < Len(self.cube)

\* RadarCubeReader::frame_footer
frame_footer(self, s) ==
    IF self.cube_header = <<>> THEN {Done(new, RetErr(Err0("CubeHeaderMissing")))}
    ELSE IF FooterCounterMismatch(self, s)
        THEN {Done(new, RetErr(Err0("FrameCounterError")))}
    ELSE IF self.error # <<>> THEN {Done(new, RetErr(self.error[1]))}
    ELSE IF cube_short(self)
        THEN {Done(self, RetErr(Err2("MissingCubeData", self.cube_index, Len(self.cube))))}
    ELSE
    LET h == self.cube_header[1]
        sh == shape(h)
    IN
    \* ArrayView4::from_shape(..).unwrap(): a dimension of 2^64 + x overflows
    IF \E k \in 1..4 : sh[k] < 0 THEN {Crash(self, "panic")}
    \* assign() of halves of different lengths: ndarray cannot broadcast
    ELSE IF sh[4] % 2 = 1 THEN {Crash(self, "panic")}
    \* transport.bin_properties().unwrap()
    ELSE IF bin_properties(s).err # NoErr THEN {Crash(self, "panic")}
    ELSE {Done(new,
               RetCube([timestamp |-> self.timestamp,
                        packets_captured |-> self.packets_captured,
                        packets_skipped |-> self.packets_skipped,
                        frame_counter |-> self.frame_counter,
                        bin_properties |-> SubSeq(bin_properties(s).slice, 1, BIN_LEN),
                        missing_data |-> volume(h).v - self.cube_captured,
                        shape |-> sh,
                        data |-> [i \in 1..Len(self.cube) |->
                                    self.cube[ReshapeIndex(sh, i - 1) + 1]]]))}

Min(a, b) == IF a < b THEN a ELSE b

\* let len = min(cube.len(), self.cube.len() - self.cube_index)
CapturedLen_uncapped(n, room) == n

CapturedLen(n, room) == Min(n, room)

\* the error is latched and the write index left where it was
latch_noskip(self) == [self EXCEPT !.error = <<Err0("FrameCounterError")>>]

\* self.error = Some(FrameCounterError); self.cube_index = self.cube.len()
latch(self) ==
    [self EXCEPT !.error = <<Err0("FrameCounterError")>>,
                 !.cube_index = Len(self.cube)]

\* data of every frame is taken
other_frame_never(self, s) == FALSE

\* if self.frame_counter != debug_header.frame_counter()
other_frame(self, s) == self.frame_counter # debug_frame_counter(debug_header(s))

\* data is taken without a cube header
header_missing_never(self) == FALSE

\* if self.cube_header.is_none() { return Ok(None); }
header_missing(self) == self.cube_header = <<>>

\* every gap is counted
gap_counted_always(index, len) == TRUE

\* if self.cube_index < self.cube.len() { self.packets_skipped += .. }
gap_counted(index, len) == index < len

\* RadarCubeReader::frame_data
frame_data(self, s) ==
    IF header_missing(self) THEN {Done(self, RetNone)}
    ELSE IF other_frame(self, s) THEN {Done(latch(self), RetNone)}
    ELSE IF message_counter(s) = <<>> THEN {Done(self, RetErr(Err0("MessageCounterMissing")))}
    ELSE
    LET mc == message_counter(s)[1]
        expected_counter == (self.message_counter + 1) % U16
        gap == (mc - expected_counter) % U16
        payload == debug_payload(debug_header(s))
        offset == IF expected_counter # mc THEN (gap * Len(payload)) \div 4 ELSE 0
        index1 == self.cube_index + offset
        r1 == [self EXCEPT !.message_counter = mc,
                           !.received_messages = (@ + 1) % U16,
                           !.cube_index = index1,
                           !.packets_skipped =
                               IF expected_counter # mc /\ gap_counted(index1, Len(self.cube))
                               THEN (@ + gap) % U16 ELSE @]
        data == chunks(payload)
        len == CapturedLen(Len(data), Len(self.cube) - index1)
    IN
    IF index1 < Len(self.cube)
    THEN {Done([r1 EXCEPT !.packets_captured = (@ + 1) % U16,
                          !.cube = CopyInto(@, index1, SubSeq(data, 1, len)),
                          !.cube_index = index1 + Len(data),
                          !.cube_captured = @ + len],
               RetNone)}
    ELSE {Done(r1, RetNone)}

\* RadarCubeReader::read
read(self, s) ==
    IF TransportHeaderSlice_from_slice(s) # NoErr
        THEN {Done(self, RetErr(TransportHeaderSlice_from_slice(s)))}
    ELSE IF debug_header_err(s) # NoErr THEN {Done(self, RetErr(debug_header_err(s)))}
    ELSE IF debug_flags(debug_header(s)) = START_OF_FRAME THEN start_of_frame(self, s)
    ELSE IF debug_flags(debug_header(s)) = FRAME_FOOTER THEN frame_footer(self, s)
    ELSE IF debug_flags(debug_header(s)) \in {FRAME_DATA, END_OF_DATA}
        THEN frame_data(self, s)
    ELSE {Done(self, RetErr(Err1("InvalidDebugFlags", debug_flags(debug_header(s)))))}

(***************************************************************************)
(* The datagrams offered to the reader.  A descriptor d names one datagram *)
(* and Bytes(d) is its byte slice:                                         *)
(*   k   "start" | "data" | "footer" | "raw"                               *)
(*   fc  frame_counter of the debug header                                 *)
(*   mc  message_counter of the transport header, -1 when the flag bit     *)
(*       that announces it is clear                                        *)
(*   sh  cube header dimensions <<chirp_types, range_gates, rx_channels,   *)
(*       doppler_bins>> (start)                                            *)
(*   n   start: elements after the cube header; data: payload bytes        *)
(*   x   the variant, see Inputs                                           *)
(***************************************************************************)
MaxFrame == 2
MaxData == 2
MaxMsg == 2
\* targets of a target list, read_message calls of a run
MaxTargets == 2
MaxCalls == 2
\* args.window_size, frames acquired in a run with clustering
WindowSize == 2
MaxAcquired == 18
\* chunks received from the UDP sockets in a run
MaxChunks == 130
\* window sizes configured and frames received in a run of the window alone
MaxWindow == 3
MaxRecv == 4
\* messages a task offers to its topic in a run of the publishers
MaxPuts == 2
\* calls of cluster in a run of the clusterer
MaxClusterCalls == 3

Byte8(x) == IF x < 0 THEN x + 256 ELSE x

Bytes16(x) == <<(x % U16) \div 256, x % 256>>

Zeros(n) == [i \in 1..n |-> 0]

\* SMS transport header, application protocol app, debug port flags
TransportBytes(mc, app, plen) ==
    <<START_PATTERN, 1, (IF mc >= 0 THEN 14 ELSE 12)>> \o Bytes16(plen)
        \o <<app, 0, 0, 0, (IF mc >= 0 THEN 1 ELSE 0)>>
        \o (IF mc >= 0 THEN Bytes16(mc) ELSE <<>>) \o <<0, 0>>

DebugBytes(fc, flags) == <<0, 0, 0, fc, flags, 0, 0, 0>>

PortBytes(id) == <<0, 0, 0, id>> \o Zeros(4) \o <<0, 0, 0, 0, 0, 0, 0, 9>> \o Zeros(8)

CubeBytes(sh, pad) ==
    Zeros(24) \o Bytes16(sh[2]) \o <<0, 0>> \o Bytes16(sh[4])
        \o <<Byte8(sh[3]), Byte8(sh[1]), 4, 0>> \o Zeros(5) \o <<pad>>

\* n samples of the datagram (fc, mc): sample i is the word
\* fc mc (i mod 256) (1 + i div 256), which is never the sentinel word
SampleBytes(fc, mc, n) ==
    [j \in 1..(4 * n) |->
        LET i == (j - 1) \div 4 IN
        CASE (j - 1) % 4 = 0 -> fc
          [] (j - 1) % 4 = 1 -> mc % 256
          [] (j - 1) % 4 = 2 -> i % 256
          [] OTHER -> 1 + i \div 256]

\* the element sample i of datagram (fc, mc) becomes in the cube
Sample(fc, mc, i) == <<I16(i % 256, 1 + i \div 256), I16(fc, mc % 256)>>

Desc(k, fc, mc, sh, n, x) == [k |-> k, fc |-> fc, mc |-> mc, sh |-> sh, n |-> n, x |-> x]

NoShape == <<0, 0, 0, 0>>

Bytes(d) ==
    LET body ==
        CASE d.k = "start" ->
                DebugBytes(d.fc, START_OF_FRAME)
                    \o PortBytes(IF d.x = "port63" THEN 63 ELSE 5)
                    \o CubeBytes(d.sh, IF d.x = "pad" THEN 4
                                       ELSE IF d.x = "padover" THEN 200 ELSE 0)
                    \o (IF d.x = "pad" THEN Zeros(4) ELSE <<>>)
                    \o SampleBytes(d.fc, d.mc, d.n)
          [] d.k = "data" ->
                DebugBytes(d.fc, IF d.x = "end" THEN END_OF_DATA ELSE FRAME_DATA)
                    \o SampleBytes(d.fc, d.mc, d.n \div 4) \o Zeros(d.n % 4)
          [] d.k = "footer" ->
                DebugBytes(d.fc, FRAME_FOOTER)
                    \o PortBytes(IF d.x = "port5" THEN 5 ELSE 63)
                    \o <<1, 2, 3, 4, 5, 6, 7, 8, 9, 10, 11, 12>>
          [] d.k = "raw" /\ d.x = "flags7" -> DebugBytes(d.fc, 7)
          [] d.k = "raw" /\ d.x = "nodebug" -> <<0, 0, 0>>
          [] OTHER -> DebugBytes(d.fc, FRAME_DATA)
    IN
    CASE d.k = "raw" /\ d.x = "short" -> <<START_PATTERN, 1, 12>>
      [] d.k = "raw" /\ d.x = "pattern" ->
            <<0>> \o From(TransportBytes(-1, 5, Len(body)), 1) \o body
      [] d.k = "raw" /\ d.x = "hdrlen" ->
            <<START_PATTERN, 1, 12>> \o From(TransportBytes(0, 5, Len(body)), 3) \o body
      [] d.k = "raw" /\ d.x = "app8" -> TransportBytes(-1, 8, Len(body)) \o body
      [] OTHER -> TransportBytes(d.mc, 5, Len(body)) \o body

Frames == 1..MaxFrame

\* <<dimensions, elements carried by the START_OF_FRAME>>
CubeLayouts ==
    {<<(<<1, 2, 1, 2>>), 0>>, <<(<<1, 2, 1, 2>>), 2>>,
     <<(<<1, 2, 1, 4>>), 6>>, <<(<<1, 2, 1, 4>>), 8>>}

StartInputs ==
    {Desc("start", fc, 0, sn[1], sn[2], "ok") : fc \in Frames, sn \in CubeLayouts}
    \cup {Desc("start", 1, 65534, <<1, 2, 1, 2>>, 0, "ok"),
          Desc("start", 1, 0, <<2, 2, 2, 4>>, 32, "ok"),
          Desc("start", 1, 0, <<1, 1, 1, 3>>, 3, "ok"),
          Desc("start", 1, 0, <<1, 1, 1, 0>>, 0, "ok"),
          Desc("start", 1, 0, <<1, 2, 1, 2>>, 4, "pad"),
          Desc("start", 1, 0, <<1, 2, 1, 2>>, 0, "padover"),
          Desc("start", 1, 0, <<1, 2, 1, 2>>, 5, "over"),
          Desc("start", 1, 0, <<-1, 1, 1, 2>>, 0, "neg"),
          Desc("start", 1, 0, <<-1, -1, 1, 2>>, 2, "neg"),
          Desc("start", 1, -1, <<1, 2, 1, 2>>, 0, "nomc"),
          Desc("start", 1, 0, <<1, 2, 1, 2>>, 0, "port63")}

\* data of frame 1 around the start counters 0 and 65534 (so that
\* 65535 -> 0 happens), data of the other frames, an END_OF_DATA datagram
\* with two stray bytes, and one without message counter
DataInputs ==
    {Desc("data", 1, mc, NoShape, n, "data") : mc \in 1..MaxMsg, n \in {4, 8}}
    \cup {Desc("data", 1, mc, NoShape, 8, "data") : mc \in {0, 65535}}
    \cup {Desc("data", fc, 1, NoShape, 8, "data") : fc \in Frames \ {1}}
    \cup {Desc("data", 1, 2, NoShape, 6, "end"),
          Desc("data", 1, -1, NoShape, 4, "nomc")}

FooterInputs ==
    {Desc("footer", fc, -1, NoShape, 0, "ok") : fc \in Frames}
    \cup {Desc("footer", 1, -1, NoShape, 0, "port5")}

RawInputs ==
    {Desc("raw", 1, -1, NoShape, 0, x) :
        x \in {"short", "pattern", "hdrlen", "app8", "flags7", "nodebug"}}

Inputs == StartInputs \cup DataInputs \cup FooterInputs \cup RawInputs

\* the byte slice of every datagram offered
InputBytes == [d \in Inputs |-> Bytes(d)]

(***************************************************************************)
(* History of the datagrams read since the reader was last Idle, computed  *)
(* from the datagrams themselves (not from the reader's fields):           *)
(*   active    a well-formed START_OF_FRAME opened a frame                 *)
(*   fc, sh    its frame_counter and cube header dimensions                *)
(*   next      message counter a consecutive stream carries next           *)
(*   gaps      data datagrams of the frame whose counter was not next      *)
(*   gap1      every such gap was one missing datagram                     *)
(*   gapAt     elements offered before the first gap                       *)
(*   L         payload bytes of the frame's data datagrams (0: none yet,   *)
(*             -1: they differ)                                            *)
(*   offered   elements offered by the START and the frame's data          *)
(*   foreign   a data datagram of another frame_counter followed the START *)
(*   switched  a START of another frame_counter arrived while a frame was  *)
(*             open                                                        *)
(*   pure      only well-formed start / data / footer datagrams so far     *)
(*   errs      errors returned so far (2: two or more)                     *)
(*   ndata     data datagrams read since the START                         *)
(*   footed    a footer was read before the datagram read last             *)
(*   ev        kind of the datagram read last, ffc / fok: the frame        *)
(*             counter of a footer and whether it carries bin properties   *)
(*   buf       the stored buffer before a read that emitted a cube         *)
(*   closed    the last read ended the frame (the next read starts anew)   *)
(*   dfc       frame_counter of the data datagram read last (0: the last  *)
(*             datagram was none)                                          *)
(***************************************************************************)
FreshHist ==
    [active |-> FALSE, fc |-> 0, sh |-> NoShape, next |-> 0, gaps |-> 0,
     gap1 |-> TRUE, gapAt |-> 0, L |-> 0, offered |-> 0, foreign |-> FALSE,
     switched |-> FALSE, pure |-> TRUE, errs |-> 0, ndata |-> 0,
     ev |-> "init", footed |-> FALSE, ffc |-> 0, fok |-> FALSE, buf |-> <<>>,
     closed |-> FALSE, dfc |-> 0]

WellFormed(d) ==
    \/ d.k = "start" /\ d.x \in {"ok", "pad"}
    \/ d.k = "data" /\ d.x \in {"data", "end"}
    \/ d.k = "footer" /\ d.x = "ok"

HistStart(b, d) ==
    [b EXCEPT !.active = TRUE, !.fc = d.fc, !.sh = d.sh,
              !.next = (d.mc + 1) % U16, !.gaps = 0, !.gap1 = TRUE, !.gapAt = 0,
              !.L = 0, !.offered = d.n, !.foreign = FALSE,
              !.switched = b.switched \/ (b.active /\ b.fc # d.fc),
              !.ndata = 0]

HistData(b, d) ==
    IF ~b.active THEN [b EXCEPT !.ndata = @ + 1]
    ELSE IF d.fc # b.fc THEN [b EXCEPT !.foreign = TRUE, !.ndata = @ + 1]
    ELSE [b EXCEPT !.gaps = IF d.mc # b.next THEN @ + 1 ELSE @,
                   !.gap1 = @ /\ (d.mc = b.next \/ (d.mc - b.next) % U16 = 1),
                   !.gapAt = IF d.mc # b.next /\ b.gaps = 0 THEN b.offered ELSE @,
                   !.next = (d.mc + 1) % U16,
                   !.L = IF @ = 0 \/ @ = d.n THEN d.n ELSE -1,
                   !.offered = @ + d.n \div 4,
                   !.ndata = @ + 1]

HistFooter(b, d) == [b EXCEPT !.ffc = d.fc, !.fok = TRUE]

\* Once a datagram that is not well-formed was read the stream is none of
\* the streams a claim describes: only pure = FALSE and the data count are
\* kept until the frame is closed.
HistImpure(b, d) ==
    [FreshHist EXCEPT !.pure = FALSE,
                      !.ndata = IF d.k = "start" THEN 0
                                ELSE IF d.k = "data" THEN b.ndata + 1 ELSE b.ndata]

\* the history after datagram d was read in history h with outcome o
HistNext(h, d, self, o) ==
    LET b == IF h.closed THEN FreshHist ELSE h
        b0 == [b EXCEPT !.ffc = 0, !.fok = FALSE,
                        !.footed = @ \/ b.ev = "footer"]
        b1 == IF ~b.pure \/ ~WellFormed(d) THEN HistImpure(b, d)
              ELSE CASE d.k = "start" -> HistStart(b0, d)
                     [] d.k = "data" -> HistData(b0, d)
                     [] OTHER -> HistFooter(b0, d)
    IN  [b1 EXCEPT !.ev = d.k,
                   !.dfc = IF d.k = "data" THEN d.fc ELSE 0,
                   !.buf = IF o.ret.tag = "Cube" THEN self.cube ELSE <<>>,
                   !.errs = IF b1.pure /\ o.ret.tag = "Err" /\ @ < 2
                            THEN @ + 1 ELSE @,
                   !.closed = d.k = "footer" /\ o.crash = "none"
                                /\ o.st.cube_header = <<>>]

(***************************************************************************)
(* The UATv4 request engine of can.rs.  A CAN frame offered to the socket  *)
(* is [kind, id, data]: kind "data" | "remote" | "error" (the CanFrame     *)
(* variants) or "io" (the read fails), id the raw identifier, data the     *)
(* data bytes.  Packet.data is a u64 built from and taken apart into the   *)
(* same eight little-endian bytes, so it is kept as these bytes.           *)
(***************************************************************************)
RESPONSE_ID == 1792
RETRIES == 100

LE16(lo, hi) == lo + 256 * hi

\* id as u16
AsU16(x) == x % U16

CanFrame(kind, id, data) == [kind |-> kind, id |-> id, data |-> data]

NoFrame == CanFrame("none", 0, <<>>)

\* Result<u32, Error> of a request operation
CanNoResult == [tag |-> "None", kind |-> "none", a |-> 0]

CanOk(v) == [tag |-> "Ok", kind |-> "none", a |-> v]

CanErr(k, x) == [tag |-> "Err", kind |-> k, a |-> x]

\* load_data: data[0..8]
load_data(data) == SubSeq(data, 1, 8)

\* read_frame: Ok(Packet), Err(Io) or a panic
read_frame(f) ==
    IF f.kind = "io" THEN [tag |-> "Io", id |-> 0, data |-> <<>>]
    ELSE IF f.kind \in {"remote", "error"} THEN [tag |-> "panic", id |-> 0, data |-> <<>>]
    \* data[0..8] of a shorter frame: range end out of bounds
    ELSE IF Len(f.data) < 8 THEN [tag |-> "panic", id |-> 0, data |-> <<>>]
    ELSE [tag |-> "Ok", id |-> f.id, data |-> load_data(f.data)]

\* the version read as one byte
protocol_version_u8(data) == data[3]

\* ResponseHeader::from(data).protocol_version
protocol_version(data) == LE16(data[3], data[4])

\* ResponseMessage2::from(data).result and .value
message2_result(data) == data[4]

message2_value(data) == data[5] + 256 * data[6] + 65536 * data[7] + 16777216 * data[8]

(***************************************************************************)
(* can: the position of the one request operation in progress.             *)
(*   phase      "idle", or the frame recv_response awaits: "header"        *)
(*              (inside the retry loop), "m1", "m2", "m3"                  *)
(*   op         the operation called last                                  *)
(*   tries      read_frame calls made by the retry loop                    *)
(*   discarded  frames the retry loop read and dropped                     *)
(*   m2         data of the frame taken as ResponseMessage2                *)
(*   result     what the operation returned                                *)
(*   last, at   the frame offered last and the phase it was offered in     *)
(*   req        the request of the operation: [op, parnum, value]          *)
(*   sent       the frames written to the socket, <<id, data>> each        *)
(*   resp       data of the 0x700 frames recv_response took, in order      *)
(***************************************************************************)
NoRequest == [op |-> "none", parnum |-> 0, value |-> 0]

CanInit ==
    [phase |-> "idle", op |-> "none", tries |-> 0, discarded |-> 0,
     m2 |-> <<>>, result |-> CanNoResult, last |-> NoFrame, at |-> "idle",
     req |-> NoRequest, sent |-> <<>>, resp |-> <<>>]

\* the operation returns r
Return(c, r) == [c EXCEPT !.phase = "idle", !.result = r]

\* for _ in 0..100: the loop is over after this many iterations
RetryExhausted_never(n) == FALSE

RetryExhausted(n) == n >= RETRIES

\* recv_response, one iteration of the retry loop and, on a 0x700 frame,
\* the checks of the header; c is the engine, f the frame read
recv_header(c, f) ==
    LET r == read_frame(f)
        c1 == [c EXCEPT !.tries = @ + 1, !.last = f, !.at = "header"]
    IN
    IF r.tag = "panic" THEN [st |-> c1, crash |-> "panic"]
    ELSE IF r.tag = "Io" THEN [st |-> Return(c1, CanErr("Io", 0)), crash |-> "none"]
    ELSE IF r.id # RESPONSE_ID THEN
        LET c2 == [c1 EXCEPT !.discarded = @ + 1] IN
        IF RetryExhausted(c2.tries)
        THEN [st |-> Return(c2, CanErr("InvalidResponseId", AsU16(r.id))),
              crash |-> "none"]
        ELSE [st |-> c2, crash |-> "none"]
    ELSE
    LET c3 == [c1 EXCEPT !.resp = Append(@, r.data)] IN
    IF protocol_version(r.data) = 2
        THEN [st |-> Return(c3, CanErr("UATCRCError", 0)), crash |-> "none"]
    ELSE IF protocol_version(r.data) # 5
        THEN [st |-> Return(c3, CanErr("UATProtocolUnsupported", protocol_version(r.data))),
              crash |-> "none"]
    ELSE [st |-> [c3 EXCEPT !.phase = "m1"], crash |-> "none"]

\* recv_response, message1 / message2 / message3 and the result
recv_message(c, f) ==
    LET r == read_frame(f)
        c1 == [c EXCEPT !.last = f, !.at = c.phase]
    IN
    IF r.tag = "panic" THEN [st |-> c1, crash |-> "panic"]
    ELSE IF r.tag = "Io" THEN [st |-> Return(c1, CanErr("Io", 0)), crash |-> "none"]
    ELSE IF r.id # RESPONSE_ID
        THEN [st |-> Return(c1, CanErr("InvalidResponseId", AsU16(r.id))),
              crash |-> "none"]
    ELSE
    LET c2 == [c1 EXCEPT !.resp = Append(@, r.data)] IN
    IF c.phase = "m1" THEN [st |-> [c2 EXCEPT !.phase = "m2"], crash |-> "none"]
    ELSE IF c.phase = "m2"
        THEN [st |-> [c2 EXCEPT !.phase = "m3", !.m2 = r.data], crash |-> "none"]
    ELSE IF message2_result(c.m2) # 0
        THEN [st |-> Return(c2, CanErr("UATError", message2_result(c.m2))),
              crash |-> "none"]
    ELSE [st |-> Return(c2, CanOk(message2_value(c.m2))), crash |-> "none"]

(***************************************************************************)
(* The instruction triplet.  A request is [op, parnum, value]; the         *)
(* operation fixes uat_id and message_type.                                *)
(***************************************************************************)
INSTRUCTION_ID == 1019

LE16Bytes(x) == <<x % 256, (x \div 256) % 256>>

LE32Bytes(x) ==
    <<x % 256, (x \div 256) % 256, (x \div 65536) % 256, (x \div 16777216) % 256>>

\* <[u8; 8]>::from(&InstructionHeader)
InstructionHeaderBytes(h) ==
    LE16Bytes(h.uat_id)
        \o <<h.message_index, h.protocol_version, h.device_id, h.instructions>>
        \o LE16Bytes(h.crc)

\* <[u8; 8]>::from(&InstructionMessage1)
InstructionMessage1Bytes(m) ==
    LE16Bytes(m.uat_id) \o <<m.message_index, m.message_type>>
        \o LE16Bytes(m.parnum) \o <<m.dim0, m.dim1>>

\* <[u8; 8]>::from(&InstructionMessage2)
InstructionMessage2Bytes(m) ==
    LE16Bytes(m.uat_id) \o <<m.message_index, m.format>> \o LE32Bytes(m.value)

\* bitwise exclusive or of two naturals
RECURSIVE Xor(_, _)
Xor(a, b) ==
    IF a = 0 THEN b
    ELSE IF b = 0 THEN a
    ELSE (2 * Xor(a \div 2, b \div 2)) + ((a + b) % 2)

\* one bit of CRC-16/CCITT-FALSE (polynomial 0x1021, most significant first)
RECURSIVE CrcBits(_, _)
CrcBits(crc, n) ==
    IF n = 0 THEN crc
    ELSE CrcBits(IF crc >= 32768 THEN Xor((2 * crc) % U16, 4129) ELSE (2 * crc) % U16,
                 n - 1)

\* State::<CCITT_FALSE>::update over the bytes of s, from state crc
RECURSIVE CrcUpdate(_, _)
CrcUpdate(crc, s) ==
    IF crc < 0 \/ s = <<>> THEN crc
    ELSE CrcUpdate(CrcBits(Xor(crc, 256 * Head(s)), 8), Tail(s))

\* the same with the crc bytes of the header included
message_crc_whole_header(header, message1, message2) ==
    CrcUpdate(65535, InstructionHeaderBytes(header) \o InstructionMessage1Bytes(message1)
                        \o InstructionMessage2Bytes(message2))

\* message_crc: State::new() is 0xFFFF; header[..6], message1, message2
message_crc(header, message1, message2) ==
    CrcUpdate(CrcUpdate(CrcUpdate(65535, SubSeq(InstructionHeaderBytes(header), 1, 6)),
                        InstructionMessage1Bytes(message1)),
              InstructionMessage2Bytes(message2))

\* send_instruction: the three frames it writes, in order
send_instruction(header, message1, message2) ==
    LET h == [header EXCEPT !.crc = message_crc(header, message1, message2)] IN
    << <<INSTRUCTION_ID, InstructionHeaderBytes(h)>>,
       <<INSTRUCTION_ID, InstructionMessage1Bytes(message1)>>,
       <<INSTRUCTION_ID, InstructionMessage2Bytes(message2)>> >>

\* MessageType as u8
MessageTypeOf(op) ==
    CASE op = "send_command" -> 0
      [] op = "read_status" -> 1
      [] op = "write_parameter" -> 2
      [] OTHER -> 3

\* uat_id of the operation's three messages
UatIdOf(op) ==
    CASE op = "send_command" -> 1000
      [] op = "read_status" -> 2012
      [] OTHER -> 2010

\* the header, message1 and message2 the operation builds
InstructionOf(r) ==
    [header |-> [crc |-> 0, instructions |-> 1, device_id |-> 0,
                 protocol_version |-> 4, message_index |-> 0, uat_id |-> UatIdOf(r.op)],
     message1 |-> [dim0 |-> 0, dim1 |-> 0, parnum |-> r.parnum,
                   message_type |-> MessageTypeOf(r.op), message_index |-> 1,
                   uat_id |-> UatIdOf(r.op)],
     message2 |-> [value |-> r.value, format |-> 0, message_index |-> 2,
                   uat_id |-> UatIdOf(r.op)]]

CanRequest(op, parnum, value) == [op |-> op, parnum |-> parnum, value |-> value]

\* the calls made: Parameter CenterFrequency = 1 and EnableTargetList = 200,
\* Status SerialNumber = 9, Command SaveParameters = 344
Requests ==
    {CanRequest("write_parameter", p, v) : p \in {1, 200}, v \in {1, 258}}
    \cup {CanRequest("read_parameter", 1, 0),
          CanRequest("read_status", 9, 0),
          CanRequest("send_command", 344, 0)}

\* the frames send_instruction writes for every request
InstructionFrames ==
    [r \in Requests |->
        send_instruction(InstructionOf(r).header, InstructionOf(r).message1,
                         InstructionOf(r).message2)]

\* the frames the bus offers
HeaderData(version) == <<0, 0, version % 256, version \div 256, 0, 1, 0, 0>>

MessageData(index, result, value) == <<0, 0, index, result>> \o LE32Bytes(value)

CanFrames ==
    {CanFrame("data", RESPONSE_ID, HeaderData(v)) : v \in {5, 2, 4, 261}}
    \cup {CanFrame("data", RESPONSE_ID, MessageData(2, r, 42)) : r \in {0, 7}}
    \cup {CanFrame("data", RESPONSE_ID, MessageData(2, 0, 298))}
    \* a target frame (0x400) and a frame with the extended ID 0x10700
    \cup {CanFrame("data", id, HeaderData(5)) : id \in {1024, 67328}}
    \cup {CanFrame("data", RESPONSE_ID, <<0, 0, 5, 0>>),
          CanFrame("remote", RESPONSE_ID, <<>>),
          CanFrame("error", 0, <<>>),
          CanFrame("io", 0, <<>>)}

(***************************************************************************)
(* The target-list engine of can.rs: read_message.  Packet.data is the     *)
(* u64 from_le_bytes of the eight data bytes, kept here as those bytes:    *)
(* bit k of the u64 is bit k % 8 of byte k \div 8.  The f64 fields of      *)
(* Header and Target are held as the integer the code multiplies by the    *)
(* field's fixed scale.                                                    *)
(***************************************************************************)
RECURSIVE Pow2(_)
Pow2(n) == IF n = 0 THEN 1 ELSE 2 * Pow2(n - 1)

\* bit k of data
DataBit(data, k) == (data[(k \div 8) + 1] \div Pow2(k % 8)) % 2

\* (data >> shift) & (2^width - 1)
RECURSIVE BitsAt(_, _, _)
BitsAt(data, shift, width) ==
    IF width = 0 THEN 0
    ELSE DataBit(data, shift) + 2 * BitsAt(data, shift + 1, width - 1)

\* (data >> 62) & 3
header_type(data) == BitsAt(data, 62, 2)

MsgNoResult == [tag |-> "None", kind |-> "none", text |-> <<>>, frame |-> <<>>]

MsgErr(kind, text) == [tag |-> "Err", kind |-> kind, text |-> text, frame |-> <<>>]

MsgOk(header, targets) ==
    [tag |-> "Ok", kind |-> "none", text |-> <<>>,
     frame |-> <<[header |-> header, targets |-> targets]>>]

HeaderDefault ==
    [seconds |-> 0, nanoseconds |-> 0, cycle_duration |-> 0, cycle_counter |-> 0,
     n_targets |-> 0, tx_antenna |-> 0, frequency_sweep |-> 0, center_frequency |-> 0]

TargetDefault ==
    [range |-> 0, azimuth |-> 0, elevation |-> 0, speed |-> 0, rcs |-> 0,
     power |-> 0, noise |-> 0]

\* read_header_0; hdr is the Option<Header>
read_header_0(data, hdr) ==
    IF header_type(data) # 0
    THEN [tag |-> "Err", err |-> MsgErr("OutOfSequence", <<"header", 0, header_type(data)>>),
          header |-> HeaderDefault]
    ELSE [tag |-> "Ok", err |-> MsgNoResult,
          header |->
              [seconds |-> IF hdr = <<>> THEN 0 ELSE hdr[1].seconds,
               nanoseconds |-> IF hdr = <<>> THEN 0 ELSE hdr[1].nanoseconds,
               cycle_duration |-> BitsAt(data, 0, 12),
               cycle_counter |-> BitsAt(data, 15, 32),
               n_targets |-> BitsAt(data, 47, 8),
               tx_antenna |-> BitsAt(data, 56, 2),
               frequency_sweep |-> BitsAt(data, 58, 2),
               center_frequency |-> BitsAt(data, 60, 2)]]

\* read_header_1 and read_header_2: the header handed in, or the default
read_header_n(n, data, hdr) ==
    IF header_type(data) # n
    THEN [tag |-> "Err", err |-> MsgErr("OutOfSequence", <<"header", n, header_type(data)>>),
          header |-> HeaderDefault]
    ELSE [tag |-> "Ok", err |-> MsgNoResult,
          header |-> IF hdr = <<>> THEN HeaderDefault ELSE hdr[1]]

read_header_1(data, hdr) == read_header_n(1, data, hdr)

read_header_2(data, hdr) == read_header_n(2, data, hdr)

\* read_data_0; tgt is the Option<Target>
read_data_0(data, tgt) ==
    LET t == IF tgt = <<>> THEN TargetDefault ELSE tgt[1] IN
    [t EXCEPT !.range = BitsAt(data, 1, 13),
              !.azimuth = BitsAt(data, 22, 10) - 511,
              !.speed = BitsAt(data, 39, 12) - 2992]

\* read_data_1
read_data_1(data, tgt) ==
    LET t == IF tgt = <<>> THEN TargetDefault ELSE tgt[1] IN
    [t EXCEPT !.rcs = BitsAt(data, 1, 8) - 75,
              !.power = BitsAt(data, 9, 8),
              !.noise = BitsAt(data, 17, 8),
              !.elevation = BitsAt(data, 37, 10) - 511]

(***************************************************************************)
(* One call of read_message, a step per frame read.                        *)
(*   phase    where the call is: "idle" (not in a call), "search", "h1",   *)
(*            "h2", "t0", "t1"                                             *)
(*   header, i, cur, targets   the locals header, i, target, targets[..i]  *)
(*   result   what the last finished call returned                        *)
(*   last, at the frame read last and the phase it was read in             *)
(*   taken    the frames this call read from the header frame onward       *)
(*   skipped  frames this call discarded in its search                     *)
(*   calls    calls started                                                *)
(*   prev     how the call before this one ended: <<"Ok">> or the error's  *)
(*            kind and text                                                *)
(***************************************************************************)
NoTargetFrame == [kind |-> "none", id |-> 0, data |-> <<>>, meta |-> <<>>]

MsgInit ==
    [phase |-> "idle", header |-> <<>>, i |-> 0, cur |-> <<>>, targets |-> <<>>,
     result |-> MsgNoResult, last |-> NoTargetFrame, at |-> "idle", taken |-> <<>>,
     skipped |-> 0, calls |-> 0, prev |-> <<>>]

MsgReturn(m, r) == [m EXCEPT !.phase = "idle", !.result = r]

\* the start test of the search loop, on the ID alone
IsStartHeader_any_tag(id, data) == id = 1024

\* (pkt.id == 0x400) && ((pkt.data >> 62) & 3) == 0
IsStartHeader(id, data) == id = 1024 /\ header_type(data) = 0

\* 0x401 + i != pkt.id
TargetIdMismatch_never(i, id) == FALSE

TargetIdMismatch(i, id) == 1025 + i # id

\* read_message after one more read_frame; m is the call, f the frame.  The
\* Frame's targets are kept up to n_targets; the entries from there on stay
\* Target::default().
read_message(m, f) ==
    LET r == read_frame(f)
        m1 == [m EXCEPT !.last = f, !.at = m.phase]
        m2 == [m1 EXCEPT !.taken = Append(@, f)]
    IN
    IF r.tag = "panic" THEN [st |-> m1, crash |-> "panic"]
    ELSE IF r.tag = "Io" THEN [st |-> MsgReturn(m1, MsgErr("Io", <<>>)), crash |-> "none"]
    ELSE IF m.phase = "search" THEN
        IF IsStartHeader(r.id, r.data)
        THEN LET h == read_header_0(r.data, <<>>) IN
             IF h.tag = "Err" THEN [st |-> MsgReturn(m2, h.err), crash |-> "none"]
             ELSE [st |-> [m2 EXCEPT !.phase = "h1", !.header = <<h.header>>],
                   crash |-> "none"]
        ELSE [st |-> [m1 EXCEPT !.skipped = Min(@ + 1, 2)], crash |-> "none"]
    ELSE IF m.phase = "h1" THEN
        LET h == read_header_1(r.data, m.header) IN
        IF h.tag = "Err" THEN [st |-> MsgReturn(m2, h.err), crash |-> "none"]
        ELSE [st |-> [m2 EXCEPT !.phase = "h2", !.header = <<h.header>>], crash |-> "none"]
    ELSE IF m.phase = "h2" THEN
        LET h == read_header_2(r.data, m.header) IN
        IF h.tag = "Err" THEN [st |-> MsgReturn(m2, h.err), crash |-> "none"]
        ELSE IF h.header.n_targets = 0
            THEN [st |-> MsgReturn([m2 EXCEPT !.header = <<h.header>>],
                                   MsgOk(h.header, <<>>)),
                  crash |-> "none"]
        ELSE [st |-> [m2 EXCEPT !.phase = "t0", !.header = <<h.header>>, !.i = 0],
              crash |-> "none"]
    ELSE IF TargetIdMismatch(m.i, r.id)
        THEN [st |-> MsgReturn(m2, MsgErr("OutOfSequence", <<"target", 1025 + m.i, r.id>>)),
              crash |-> "none"]
    ELSE IF m.phase = "t0"
        THEN [st |-> [m2 EXCEPT !.phase = "t1", !.cur = <<read_data_0(r.data, <<>>)>>],
              crash |-> "none"]
    ELSE
        LET m3 == [m2 EXCEPT !.targets = Append(@, read_data_1(r.data, m.cur)),
                             !.cur = <<>>, !.i = @ + 1]
        IN
        IF m3.i = m.header[1].n_targets
        THEN [st |-> MsgReturn(m3, MsgOk(m.header[1], m3.targets)), crash |-> "none"]
        ELSE [st |-> [m3 EXCEPT !.phase = "t0"], crash |-> "none"]

(***************************************************************************)
(* The frames the bus offers while streaming; meta holds the field values  *)
(* a frame was packed from.                                                *)
(***************************************************************************)
TargetFrame(kind, id, data, meta) == [kind |-> kind, id |-> id, data |-> data, meta |-> meta]

\* header 0: cycle_duration bits 0..11, cycle_counter 15..46, n_targets
\* 47..54, tx_antenna 56..57, frequency_sweep 58..59, center_frequency 60..61
Header0Data(cd, cc, n, tx, fs, cf) ==
    <<cd % 256, ((cd \div 256) % 16) + (128 * (cc % 2)), (cc \div 2) % 256,
      (cc \div 512) % 256, (cc \div 131072) % 256,
      ((cc \div 33554432) % 128) + (128 * (n % 2)), (n \div 2) % 128,
      tx + (4 * fs) + (16 * cf)>>

\* sub-headers 1 and 2: the type in bits 62..63
SubHeaderData(type) == <<0, 0, 0, 0, 0, 0, 0, 64 * type>>

\* first packet of a target: range bits 1..13, azimuth 22..31, speed 39..50
Data0(range, az, sp) ==
    <<(2 * range) % 256, (range \div 128) % 64, 64 * (az % 4), (az \div 4) % 256,
      128 * (sp % 2), (sp \div 2) % 256, (sp \div 512) % 8, 0>>

\* second packet: bit 0 set, rcs bits 1..8, power 9..16, noise 17..24,
\* elevation 37..46
Data1(rcs, power, noise, el) ==
    <<1 + ((2 * rcs) % 256), ((rcs \div 128) % 2) + ((2 * power) % 256),
      ((power \div 128) % 2) + ((2 * noise) % 256), (noise \div 128) % 2,
      32 * (el % 8), (el \div 8) % 128, 0, 0>>

Header0Frame(n) ==
    TargetFrame("data", 1024, Header0Data(1000 + n, 70000 + n, n, 1, 2, 3),
                <<1000 + n, 70000 + n, n, 1, 2, 3>>)

Data0Frame(id, k) ==
    TargetFrame("data", id, Data0(5000 + k, 700 + k, 3000 + k),
                <<5000 + k, 700 + k, 3000 + k>>)

Data1Frame(id, k) ==
    TargetFrame("data", id, Data1(200 + k, 130 + k, 250 + k, 600 + k),
                <<200 + k, 130 + k, 250 + k, 600 + k>>)

TargetFrames ==
    {Header0Frame(n) : n \in 0..MaxTargets}
    \cup {TargetFrame("data", 1024, SubHeaderData(type), <<type>>) : type \in {1, 2}}
    \* a response frame (0x700) whose top data bits are 01
    \cup {TargetFrame("data", RESPONSE_ID, SubHeaderData(1), <<1>>)}
    \cup {Data0Frame(1024 + k, k) : k \in 1..MaxTargets}
    \cup {Data1Frame(1024 + k, k) : k \in 1..MaxTargets}
    \cup {TargetFrame("data", 1024, <<0, 0, 0, 0>>, <<>>),
          TargetFrame("remote", 1024, <<>>, <<>>),
          TargetFrame("error", 0, <<>>, <<>>),
          TargetFrame("io", 0, <<>>, <<>>)}

(***************************************************************************)
(* The tasks of radarpub.rs: the loop of stream and the clustering worker  *)
(* with the channel between them.                                          *)
(*   pc         where stream is: "main" (not started), "read" (at or in    *)
(*              read_message), "send" (at tx.send), "publish" (at          *)
(*              format_targets and put), "dead" (ended)                    *)
(*   clustering args.clustering                                            *)
(*   acquired   frames read_message returned; frame k is the k-th          *)
(*   held       the frame in hand                                          *)
(*   published  the frames handed to the targets publisher, in order       *)
(*   logged     errors logged, counted up to 2                             *)
(*   chan       the channel to the clustering worker                       *)
(*   rx         the worker: "none", "recv", "publish", "dead"              *)
(*   window     the worker's window of frames                              *)
(*   cluster    the cluster message published last: the frame it was       *)
(*              computed for, its window, and the number of target frames  *)
(*              published by then                                          *)
(***************************************************************************)
CLUSTER_CHANNEL == 16

StreamInit ==
    [pc |-> "main", clustering |-> FALSE, acquired |-> 0, held |-> 0,
     published |-> <<>>, logged |-> 0, chan |-> <<>>, rx |-> "none",
     window |-> <<>>, cluster |-> <<>>]

\* the arm Ok(frame) goes on without handing the frame to anyone
AfterFrame_skip(clustering) == "read"

\* the arm Ok(frame): tx.send if clustering is Some, then the publisher
AfterFrame(clustering) == IF clustering THEN "send" ELSE "publish"

\* match read_message(&can).await in stream; tag is the result's
stream_match(s, tag) ==
    IF tag = "Err" THEN [s EXCEPT !.logged = Min(@ + 1, 2)]
    ELSE [s EXCEPT !.acquired = @ + 1, !.held = s.acquired + 1,
                   !.pc = AfterFrame(s.clustering)]

\* window.pop_front() at window_size, then push_back
\* VecDeque::pop_front: None on an empty deque
pop_front(window) == IF window = <<>> THEN window ELSE Tail(window)

\* if window.len() == args.window_size { window.pop_front(); }
\* window.push_back(targets)
window_slide(size, window, targets) ==
    (IF Len(window) = size THEN pop_front(window) ELSE window) \o <<targets>>

window_push(window, k) == window_slide(WindowSize, window, k)

(***************************************************************************)
(* The window of clustering_task on its own, for a configured window_size: *)
(*   size      args.window_size                                            *)
(*   window    the deque; a frame is [id, n]: its number in the order the  *)
(*             worker received it and how many targets it holds            *)
(*   received  frames received so far                                      *)
(***************************************************************************)
WinInit(W) == [size |-> W, window |-> <<>>, received |-> 0]

(***************************************************************************)
(* The UDP ingress of net.rs and the channel to cube_loop.  A chunk is     *)
(* numbered in the order it entered the channel.                           *)
(*   queue    the channel of capacity 128                                  *)
(*   pc       per ingress task: "recv" (at the socket) or "send" (at       *)
(*            tx.send with a chunk in hand)                                *)
(*   next     chunks received from the sockets so far                      *)
(*   sent     chunks that entered the channel                              *)
(*   taken    chunks cube_loop received                                    *)
(***************************************************************************)
INGRESS_CHANNEL == 128

Ports == {5, 63}

NetInit ==
    [queue |-> <<>>, pc |-> [p \in Ports |-> "recv"], next |-> 0, sent |-> 0,
     taken |-> 0]

\* tx.send(..).await completes only while the channel has room
SendReady(queue) == Len(queue) < INGRESS_CHANNEL

(***************************************************************************)
(* The publishing end of cube_loop.                                        *)
(*   published  frame_counter of the cubes handed to the cube publisher    *)
(*   ev         what the loop did with the last datagram: "published",     *)
(*              "dropped" (a cube with missing data), "error", "none"      *)
(*   last       frame_counter of the START_OF_FRAME offered last           *)
(***************************************************************************)
CubesInit == [published |-> <<>>, ev |-> "none", last |-> 0]

\* every emitted cube goes out
Publishable_always(c) == TRUE

\* if cubemsg.missing_data == 0
Publishable(c) == c.missing_data = 0

\* match cubemsg in cube_loop; r is what reader.read returned
cube_match(cs, r) ==
    IF r.tag = "Cube" THEN
        IF Publishable(r.cube[1])
        THEN [cs EXCEPT !.published = Append(@, r.cube[1].frame_counter),
                        !.ev = "published"]
        ELSE [cs EXCEPT !.ev = "dropped"]
    ELSE IF r.tag = "Err" THEN [cs EXCEPT !.ev = "error"]
    ELSE [cs EXCEPT !.ev = "none"]

(***************************************************************************)
(* The put of every publishing task.  Per topic:                           *)
(*   alive   the task is in its loop                                       *)
(*   puts    messages handed to put so far                                 *)
(*   sent    puts that returned Ok                                         *)
(*   failed  puts that returned Err                                        *)
(*   logged  error! lines written for a failed put                         *)
(***************************************************************************)
Topics == {"targets", "clusters", "cube", "tf_static", "info"}

PubsInit ==
    [t \in Topics |-> [alive |-> TRUE, puts |-> 0, sent |-> 0, failed |-> 0,
                       logged |-> 0]]

\* match publisher.put(msg).encoding(enc).await
\*     { Ok(_) => {}  Err(e) => error!(..) }
put_match(p, ok) ==
    IF ok THEN [p EXCEPT !.puts = @ + 1, !.sent = @ + 1]
    ELSE [p EXCEPT !.puts = @ + 1, !.failed = @ + 1, !.logged = @ + 1]

\* session.put(..).await? in a task spawned as
\* tokio::spawn(async move { task(..).await.unwrap() }): the error leaves
\* the loop and the unwrap panics inside the spawned task, whose handle was
\* dropped
put_try(p, ok) ==
    IF ok THEN [p EXCEPT !.puts = @ + 1, !.sent = @ + 1]
    ELSE [p EXCEPT !.puts = @ + 1, !.failed = @ + 1, !.alive = FALSE]

(***************************************************************************)
(* Clustering and the ByteTrack tracker (clustering/mod.rs, tracker.rs).   *)
(* The numeric parts are external crates or floating point: DBSCAN, the    *)
(* Kalman filter, IoU and the Jonker-Volgenant assignment.  They are kept  *)
(* by what they decide.  A point is [cls, place]: cls the index i of       *)
(* Classification::Core(i) or Edge(i), -1 for Noise; place the cell of the *)
(* x/y plane its cluster lies in.  The points of a cluster share one x/y   *)
(* position, so the box of a cluster is the square cluster() pushes for a  *)
(* cluster of no extent: all boxes at one place are the same square, and   *)
(* boxes at different places are disjoint.  A box is [place, side, score,  *)
(* label].  A tracklet is [id, place, expiry]: it only ever sees the box   *)
(* it was created from, so its innovation is zero and its predicted box is *)
(* the box of its place.  iou is intersection / union, 0 once either is at *)
(* most EPSILON: 1 for coinciding boxes larger than EPSILON and 0 for all  *)
(* others.  Every valid pair of one score then costs the same, and lapjv   *)
(* returns one of the assignments with the fewest INVALID_MATCH pairs.     *)
(* clustering_eps is kept in millimetres, the side of a box in quarters of *)
(* a millimetre (the box of a cluster of no extent has a side of three     *)
(* quarters of clustering_eps) and areas in their squares, so that both    *)
(* are whole numbers and no square has an area of exactly EPSILON; scores  *)
(* are kept in tenths, IOUs and costs in hundredths.                       *)
(* Timestamps and expiries are kept in milliseconds: (track_extra_lifespan *)
(* * 1e9) as u64 nanoseconds is 1500 of them.  Uuid::new_v4() is the next  *)
(* number never used before.                                               *)
(***************************************************************************)
\* impl Default for TrackSettings
TrackSettings_default ==
    [track_extra_lifespan |-> 1500, track_high_conf |-> 5, track_iou |-> 1]

\* every order of the elements of a finite set
Orders(S) ==
    {q \in [1..Cardinality(S) -> S] :
        \A i, j \in 1..Cardinality(S) : q[i] = q[j] => i = j}

\* Core(i) => i + 1, Edge(i) => i + 1, Noise => 0
cluster_label(point) == IF point.cls < 0 THEN 0 ELSE point.cls + 1

\* xmax - xmin (ymax - ymin) of the box pushed for a cluster whose points
\* share one position, in quarters of a millimetre, with that position at
\* 0 and clustering_eps in millimetres:
\* if xmax - xmin < clustering_eps * 2 {
\*     xmax = (xmax + xmin) / 2 + clustering_eps / 2;
\*     xmin = (xmax + xmin) / 2 - clustering_eps / 2; }
\* where the second line reads the xmax the first has written; every
\* division is of an even number
box_side(clustering_eps) ==
    LET eps == 4 * clustering_eps
        narrow == 0 - 0 < eps * 2
        xmax == IF narrow THEN (0 + 0) \div 2 + eps \div 2 ELSE 0
        xmin == IF narrow THEN (xmax + 0) \div 2 - eps \div 2 ELSE 0
    IN  xmax - xmin

\* the boxes pushed for the clusters of a frame, in every order the
\* iteration of the HashMap `clusters` can produce
cluster_boxes(frame, clustering_eps) ==
    LET ids == {cluster_label(frame[i]) : i \in 1..Len(frame)} \ {0}
        place(id) == (CHOOSE i \in 1..Len(frame) : cluster_label(frame[i]) = id)
        box(id) == [place |-> frame[place(id)].place,
                    side |-> box_side(clustering_eps),
                    score |-> 10, label |-> id]
    IN  {[k \in 1..Cardinality(ids) |-> box(q[k])] : q \in Orders(ids)}

\* no box is of high confidence
high_conf_ind_none(s, boxes) == {}

\* (0..boxes.len()).filter(|x| boxes[*x].score >= s.track_high_conf)
high_conf_ind(s, boxes) ==
    {i \in 1..Len(boxes) : boxes[i].score >= s.track_high_conf}

\* the expiry is left as it was
Tracklet_update_keep(track, s, ts) == track

\* Tracklet::update
Tracklet_update(track, s, ts) ==
    [track EXCEPT !.expiry = ts + s.track_extra_lifespan]

INVALID_MATCH == 1000000

\* const EPSILON: f32 = 0.00001, an area in square metres: 10 square
\* millimetres, 160 squares of a quarter millimetre
EPSILON == 160

\* iou of the predicted box of a tracklet and a box, in hundredths: the
\* predicted box of a tracklet at the place of the box is the square of
\* the box, that of a tracklet elsewhere shares no point with it
iou(track, new_box) ==
    LET area == new_box.side * new_box.side
        intersection == IF track.place = new_box.place THEN area ELSE 0
        union == area + area - intersection
    IN  IF intersection <= EPSILON THEN 0
        ELSE IF union <= EPSILON THEN 0
        ELSE 100 * (intersection \div union)

\* box_cost, in hundredths
box_cost(track, new_box, score_threshold, iou_threshold) ==
    IF new_box.score < score_threshold THEN INVALID_MATCH * 100
    ELSE IF iou(track, new_box) < iou_threshold THEN INVALID_MATCH * 100
    ELSE (150 - 10 * new_box.score) + (150 - iou(track, new_box))

\* the entry of compute_costs for box i and tracklet x is less than
\* INVALID_MATCH: neither is filtered and box_cost is no INVALID_MATCH
valid_match(boxes, tracklets, matched, tracked, score_threshold, iou_threshold, i, x) ==
    /\ i \notin matched
    /\ x \notin tracked
    /\ box_cost(tracklets[x], boxes[i], score_threshold, iou_threshold)
           < INVALID_MATCH * 100

\* lapjv(&costs) less the pairs of INVALID_MATCH: the assignments of boxes
\* to tracklets (a function from box index to tracklet index) lapjv can
\* return
lapjv(boxes, tracklets, matched, tracked, score_threshold, iou_threshold) ==
    LET m == Len(boxes)
        n == Len(tracklets)
        all == UNION {[S -> 1..n] : S \in SUBSET (1..m)}
        ok(f) == /\ \A i, j \in DOMAIN f : f[i] = f[j] => i = j
                 /\ \A i \in DOMAIN f :
                        valid_match(boxes, tracklets, matched, tracked,
                                    score_threshold, iou_threshold, i, f[i])
        cand == {f \in all : ok(f)}
    IN  {f \in cand : \A g \in cand : Cardinality(DOMAIN g) <= Cardinality(DOMAIN f)}

\* Vec::swap_remove
swap_remove(v, i) ==
    IF i = Len(v) THEN SubSeq(v, 1, Len(v) - 1)
    ELSE [SubSeq(v, 1, Len(v) - 1) EXCEPT ![i] = v[Len(v)]]

\* for i in (0..self.tracklets.len()).rev(): remove the tracklets whose
\* expiry precedes timestamp
RECURSIVE remove_expired(_, _, _)
remove_expired(tracklets, i, timestamp) ==
    IF i = 0 THEN tracklets
    ELSE remove_expired(IF tracklets[i].expiry < timestamp
                        THEN swap_remove(tracklets, i) ELSE tracklets,
                        i - 1, timestamp)

\* for i in high_conf_ind: a new tracklet for every box not matched; t is
\* [tracklets, info, uuids]
RECURSIVE new_tracklets(_, _, _, _, _, _, _)
new_tracklets(t, s, boxes, ind, matched, timestamp, i) ==
    IF i > Len(boxes) THEN t
    ELSE IF i \in ind /\ i \notin matched
    THEN new_tracklets(
            [tracklets |-> Append(t.tracklets,
                                  [id |-> t.uuids + 1, place |-> boxes[i].place,
                                   expiry |-> timestamp + s.track_extra_lifespan]),
             info |-> [t.info EXCEPT ![i] = <<t.uuids + 1>>],
             uuids |-> t.uuids + 1],
            s, boxes, ind, matched, timestamp, i + 1)
    ELSE new_tracklets(t, s, boxes, ind, matched, timestamp, i + 1)

\* the tracklets after the pairs of assignment f were matched
apply_matches(tracklets, f, s, timestamp) ==
    [x \in 1..Len(tracklets) |->
        IF \E i \in DOMAIN f : f[i] = x
        THEN Tracklet_update(tracklets[x], s, timestamp) ELSE tracklets[x]]

\* ByteTrack::update: the outcomes [tracklets, info, uuids, matched,
\* expired]; info[i] is the Option<TrackInfo> of box i (its uuid), matched
\* and expired are the uuids matched and removed
update(tracklets, uuids, s, boxes, timestamp) ==
    LET ind == high_conf_ind(s, boxes)
        first == lapjv(boxes, tracklets, {}, {}, s.track_high_conf, s.track_iou)
        second(f) == lapjv(boxes, tracklets, DOMAIN f, {f[i] : i \in DOMAIN f}, 0,
                           s.track_iou)
        passes == UNION {{<<f, g>> : g \in second(f)} : f \in first}
        outcome(f, g) ==
            LET both == [i \in DOMAIN f \cup DOMAIN g |->
                            IF i \in DOMAIN f THEN f[i] ELSE g[i]]
                t2 == apply_matches(apply_matches(tracklets, f, s, timestamp),
                                    g, s, timestamp)
                info == [i \in 1..Len(boxes) |->
                            IF i \in DOMAIN both THEN <<tracklets[both[i]].id>>
                            ELSE <<>>]
                t3 == remove_expired(t2, Len(t2), timestamp)
                t4 == new_tracklets([tracklets |-> t3, info |-> info, uuids |-> uuids],
                                    s, boxes, ind, DOMAIN both, timestamp, 1)
            IN  [tracklets |-> t4.tracklets, info |-> t4.info, uuids |-> t4.uuids,
                 matched |-> {tracklets[both[i]].id : i \in DOMAIN both},
                 expired |-> {t2[x].id : x \in 1..Len(t2)}
                                \ {t3[x].id : x \in 1..Len(t3)}]
    IN  {outcome(p[1], p[2]) : p \in passes}

(***************************************************************************)
(* The two assignment passes of ByteTrack::update in detail: the cost      *)
(* matrix, the assignment lapjv returns for it (a permutation of the rows  *)
(* of least total cost) and the loop over the assignment with its checks.  *)
(***************************************************************************)
\* ByteTrack::compute_costs: the square matrix of max(boxes, tracklets) rows
compute_costs(boxes, tracklets, score_threshold, iou_threshold, box_filter, track_filter) ==
    LET dims == IF Len(boxes) > Len(tracklets) THEN Len(boxes) ELSE Len(tracklets)
    IN  [c \in (1..dims) \X (1..dims) |->
            IF c[1] <= Len(boxes) /\ c[2] <= Len(tracklets)
            THEN IF c[1] \in box_filter \/ c[2] \in track_filter
                 THEN INVALID_MATCH * 100
                 ELSE box_cost(tracklets[c[2]], boxes[c[1]], score_threshold,
                               iou_threshold)
            ELSE 0]

RECURSIVE total_cost(_, _, _)
total_cost(costs, ans, i) ==
    IF i = 0 THEN 0 ELSE total_cost(costs, ans, i - 1) + costs[<<i, ans[i]>>]

\* lapjv(&costs).unwrap().0.  lapjv is an external crate; it is modelled by
\* what the specification says of it (linear assignment, Jonker-Volgenant,
\* infallible on square non-negative matrices): the column of every row,
\* in every assignment of rows to distinct columns of least total cost
lapjv_rows(costs, dims) ==
    LET perms == {f \in [1..dims -> 1..dims] : \A i, j \in 1..dims : f[i] = f[j] => i = j}
    IN  {f \in perms : \A g \in perms :
            total_cost(costs, f, dims) <= total_cost(costs, g, dims)}

\* no cost is taken for invalid
invalid_never(cost) == FALSE

\* costs[(i, x)] >= INVALID_MATCH
invalid(cost) == cost >= INVALID_MATCH * 100

\* for i in 0..ans.0.len() of the first (second = FALSE) and of the second
\* pass; a is [matched, tracked, info, pass, panic]: the boxes matched, the
\* tracklets tracked, the tracklet and the pass of every matched box, and
\* whether assert!(!tracked[x]) failed
RECURSIVE assign(_, _, _, _, _, _, _)
assign(a, m, n, costs, ans, second, i) ==
    IF i > Len(ans) \/ a.panic THEN a
    ELSE
    LET x == ans[i]
        skip == IF second
                THEN i \in a.matched \/ x \in a.tracked \/ invalid(costs[<<i, x>>])
                ELSE invalid(costs[<<i, x>>])
    IN  IF i <= m /\ x <= n /\ ~skip
        THEN IF x \in a.tracked
             THEN [a EXCEPT !.matched = @ \cup {i}, !.info[i] = x,
                            !.pass[i] = IF second THEN 2 ELSE 1, !.panic = TRUE]
             ELSE assign([a EXCEPT !.matched = @ \cup {i}, !.tracked = @ \cup {x},
                                   !.info[i] = x, !.pass[i] = IF second THEN 2 ELSE 1],
                         m, n, costs, ans, second, i + 1)
        ELSE assign(a, m, n, costs, ans, second, i + 1)

\* ByteTrack::update up to the removal of the expired tracklets: the
\* outcomes of the two passes
associate(boxes, tracklets, s) ==
    LET m == Len(boxes)
        n == Len(tracklets)
        dims == IF m > n THEN m ELSE n
        a0 == [matched |-> {}, tracked |-> {}, info |-> [i \in 1..m |-> 0],
               pass |-> [i \in 1..m |-> 0], panic |-> FALSE]
        costs1 == compute_costs(boxes, tracklets, s.track_high_conf, s.track_iou, {}, {})
        first == {assign(a0, m, n, costs1, ans, FALSE, 1) : ans \in lapjv_rows(costs1, dims)}
        costs2(a) == compute_costs(boxes, tracklets, 0, s.track_iou, a.matched, a.tracked)
        second(a) == IF a.panic THEN {a}
                     ELSE {assign(a, m, n, costs2(a), ans, TRUE, 1) :
                              ans \in lapjv_rows(costs2(a), dims)}
    IN  IF n = 0 THEN {a0} ELSE UNION {second(a) : a \in first}

(***************************************************************************)
(* Clustering.  Beside its fields (tracklets is tracker.tracklets,         *)
(* clustering_eps the --clustering-eps given to Clustering::new, 1 metre   *)
(* by default) the state keeps what the last call of cluster did:          *)
(*   uuids      uuids generated so far                                     *)
(*   timestamp  of the last call, calls: calls so far                      *)
(*   frame      its input, data: the cluster_id of each output tuple       *)
(*   allocs     the IDs get_new_cluster_id returned, in order, each with   *)
(*              the free list it found and whether the high-water mark     *)
(*              was incremented                                            *)
(*   matched    uuids of the tracklets matched                             *)
(*   expired    uuids of the tracklets the tracker removed                 *)
(*   freed      [uuid, id] taken out of the map, in the order pushed       *)
(*   pframe, pdata, close: the input and output of the call before and     *)
(*              whether it was less than track_extra_lifespan earlier      *)
(*   tie        a frame with two boxes at one place was ever fed           *)
(***************************************************************************)
ClusInit ==
    [tracklets |-> <<>>, track_id_to_cluster_id |-> <<>>,
     cluster_id_queue |-> <<>>, cluster_id_max |-> 0, clustering_eps |-> 1000,
     uuids |-> 0, timestamp |-> 0, calls |-> 0,
     frame |-> <<>>, data |-> <<>>, allocs |-> <<>>, matched |-> {},
     expired |-> {}, freed |-> <<>>, pframe |-> <<>>, pdata |-> <<>>,
     close |-> FALSE, tie |-> FALSE]

\* the free list keeps the ID it hands out
get_new_cluster_id_peek(self) ==
    IF self.cluster_id_queue = <<>>
    THEN [st |-> [self EXCEPT !.cluster_id_max = @ + 1],
          id |-> self.cluster_id_max + 1]
    ELSE [st |-> self, id |-> Head(self.cluster_id_queue)]

\* Clustering::get_new_cluster_id
get_new_cluster_id(self) ==
    IF self.cluster_id_queue = <<>>
    THEN [st |-> [self EXCEPT !.cluster_id_max = @ + 1],
          id |-> self.cluster_id_max + 1]
    ELSE [st |-> [self EXCEPT !.cluster_id_queue = Tail(@)],
          id |-> Head(self.cluster_id_queue)]

\* for (ind, info) in trackinfo.into_iter().enumerate(): r is [st, old_to_new]
RECURSIVE map_tracks(_, _, _, _)
map_tracks(r, boxes, info, ind) ==
    IF ind > Len(info) THEN r
    ELSE IF info[ind] = <<>> THEN map_tracks(r, boxes, info, ind + 1)
    ELSE
    LET uuid == info[ind][1]
        known == uuid \in DOMAIN r.st.track_id_to_cluster_id
        got == get_new_cluster_id(r.st)
        st == IF known THEN r.st
              ELSE [got.st EXCEPT
                      !.track_id_to_cluster_id = (uuid :> got.id) @@ @,
                      !.allocs = Append(@, [uuid |-> uuid, id |-> got.id,
                                            queue |-> r.st.cluster_id_queue,
                                            fresh |-> got.st.cluster_id_max
                                                        # r.st.cluster_id_max])]
        new_cluster_id == IF known THEN r.st.track_id_to_cluster_id[uuid] ELSE got.id
    IN  map_tracks([st |-> st,
                    old_to_new |-> (boxes[ind].label :> new_cluster_id) @@ r.old_to_new],
                   boxes, info, ind + 1)

\* no tracklet is taken out of the map
remove_track_none(map, tracklets) == {}

\* the keys of the map that are no tracklet of the tracker
remove_track(map, tracklets) ==
    DOMAIN map \ {tracklets[x].id : x \in 1..Len(tracklets)}

\* for track_id in remove_track, in the order q
RECURSIVE free_tracks(_, _, _)
free_tracks(self, q, k) ==
    IF k > Len(q) THEN self
    ELSE free_tracks(
            [self EXCEPT
                !.track_id_to_cluster_id =
                    [u \in DOMAIN @ \ {q[k]} |-> @[u]],
                !.cluster_id_queue = Append(@, self.track_id_to_cluster_id[q[k]]),
                !.freed = Append(@, [uuid |-> q[k],
                                     id |-> self.track_id_to_cluster_id[q[k]]])],
            q, k + 1)

\* Clustering::cluster: the outcomes [st, crash]
cluster(self, frame, timestamp) ==
    LET labels == [i \in 1..Len(frame) |-> cluster_label(frame[i])]
        s == TrackSettings_default
        start == [self EXCEPT !.timestamp = timestamp, !.calls = @ + 1,
                              !.frame = frame, !.allocs = <<>>, !.freed = <<>>,
                              !.pframe = self.frame, !.pdata = self.data,
                              !.close = self.calls > 0
                                  /\ timestamp - self.timestamp < s.track_extra_lifespan,
                              !.tie = @ \/ \E i, j \in 1..Len(frame) :
                                         /\ labels[i] # 0 /\ labels[j] # 0
                                         /\ labels[i] # labels[j]
                                         /\ frame[i].place = frame[j].place]
        outcome(boxes, u) ==
            LET r == map_tracks([st |-> [start EXCEPT !.tracklets = u.tracklets,
                                                      !.uuids = u.uuids,
                                                      !.matched = u.matched,
                                                      !.expired = u.expired],
                                 old_to_new |-> <<>>],
                                boxes, u.info, 1)
                \* old_to_new[&(d[4] as i32)] panics on a label without entry
                lost == \E i \in 1..Len(frame) :
                            labels[i] # 0 /\ labels[i] \notin DOMAIN r.old_to_new
                data == [i \in 1..Len(frame) |->
                            IF labels[i] = 0 THEN 0 ELSE r.old_to_new[labels[i]]]
                gone == remove_track(r.st.track_id_to_cluster_id, r.st.tracklets)
            IN  IF lost THEN {[st |-> r.st, crash |-> "panic"]}
                ELSE {[st |-> free_tracks([r.st EXCEPT !.data = data], q, 1),
                       crash |-> "none"] : q \in Orders(gone)}
    IN  UNION {UNION {outcome(boxes, u) :
                        u \in update(self.tracklets, self.uuids, s, boxes, timestamp)}
               : boxes \in cluster_boxes(frame, self.clustering_eps)}

\* the cells of the x/y plane a box covers
Places == {1, 2}

\* the frames offered: no point, one cluster at either place with a noise
\* point, and two clusters at the two places or both at one
Noise == [cls |-> -1, place |-> 1]

ClusterFrames ==
    {<<>>}
    \cup {<<[cls |-> 0, place |-> p], Noise, [cls |-> 0, place |-> p]>> :
            p \in Places}
    \cup {<<[cls |-> 0, place |-> pq[1]], [cls |-> 1, place |-> pq[2]],
            [cls |-> 0, place |-> pq[1]]>> :
            pq \in {<<1, 2>>, <<2, 1>>, <<1, 1>>}}

\* time between two frames, in milliseconds
Delays == {1000, 1500, 2000}

(***************************************************************************)
(* SpecReader runs RadarCubeReader::read on datagrams, one per step: the   *)
(* slice read is the datagram as it was received, which is how the pcap    *)
(* readers (the test of eth.rs, pcap_loop of rerun.rs) and udp_loop of     *)
(* main.rs call read.  cube_loop of radarpub.rs reads whole receive slots  *)
(* instead: SpecCube and SpecPorts.  A panic ends the thread.              *)
(***************************************************************************)
Init ==
    /\ reader = new
    /\ ret = RetNone
    /\ crashed = "none"
    /\ hist = FreshHist
    /\ can = CanInit
    /\ msg = MsgInit
    /\ stream = StreamInit
    /\ net = NetInit
    /\ cubes = CubesInit
    /\ win = WinInit(WindowSize)
    /\ pubs = PubsInit
    /\ clus = ClusInit

\* reader.read(udp.payload()) and the match on its result
Read(d) ==
    /\ crashed = "none"
    /\ d.k = "data" => (IF hist.closed THEN 0 ELSE hist.ndata) < MaxData
    /\ \E o \in read(reader, InputBytes[d]) :
        /\ reader' = o.st
        /\ ret' = o.ret
        /\ crashed' = o.crash
        /\ hist' = HistNext(hist, d, reader, o)
    /\ UNCHANGED <<can, msg, stream, net, cubes, win, pubs,
                 clus>>

NextReader == \E d \in Inputs : Read(d)

SpecReader == Init /\ [][NextReader]_vars

(***************************************************************************)
(* The request operations: send_instruction writes the triplet (a write    *)
(* may fail), then recv_response reads frames one at a time.               *)
(***************************************************************************)
\* send_instruction followed by the call of recv_response; written is the
\* number of write_frame calls that succeed
Request(r) ==
    /\ crashed = "none"
    /\ can.phase = "idle"
    /\ \E written \in 0..3 :
        can' = IF written = 3
               THEN [CanInit EXCEPT !.phase = "header", !.op = r.op, !.req = r,
                                    !.sent = InstructionFrames[r]]
               ELSE [CanInit EXCEPT !.op = r.op, !.req = r,
                                    !.sent = SubSeq(InstructionFrames[r], 1, written),
                                    !.result = CanErr("Io", 0)]
    /\ UNCHANGED <<reader, ret, crashed, hist, msg, stream, net, cubes, win, pubs,
                 clus>>

send_command == \E r \in Requests : r.op = "send_command" /\ Request(r)

write_parameter == \E r \in Requests : r.op = "write_parameter" /\ Request(r)

read_parameter == \E r \in Requests : r.op = "read_parameter" /\ Request(r)

read_status == \E r \in Requests : r.op = "read_status" /\ Request(r)

RecvHeader(f) ==
    /\ crashed = "none"
    /\ can.phase = "header"
    /\ can' = recv_header(can, f).st
    /\ crashed' = recv_header(can, f).crash
    /\ UNCHANGED <<reader, ret, hist, msg, stream, net, cubes, win, pubs,
                 clus>>

RecvMessage(f) ==
    /\ crashed = "none"
    /\ can.phase \in {"m1", "m2", "m3"}
    /\ can' = recv_message(can, f).st
    /\ crashed' = recv_message(can, f).crash
    /\ UNCHANGED <<reader, ret, hist, msg, stream, net, cubes, win, pubs,
                 clus>>

NextCan ==
    \/ send_command
    \/ write_parameter
    \/ read_parameter
    \/ read_status
    \/ \E f \in CanFrames : RecvHeader(f)
    \/ \E f \in CanFrames : RecvMessage(f)

SpecCan == Init /\ [][NextCan]_vars

(***************************************************************************)
(* SpecCanQueue runs the request operations, one after the other, on one   *)
(* socket whose receive queue is kept: the sensor answers every            *)
(* instruction with a response of four 0x700 frames, a target frame may    *)
(* come between them, and read_frame takes the frame at the head.  can has *)
(* here, beside the fields of CanInit,                                     *)
(*   rx     the frames queued in the socket, each with the number of the   *)
(*          call it answers (0 for a target frame)                         *)
(*   left   rx when the operation was called                               *)
(*   reply  the frames the sensor queued for this call                     *)
(*   got    frames the operation read from the socket                      *)
(*   from   for every frame in resp the call it answers                    *)
(*   calls  operations called so far                                       *)
(***************************************************************************)
MaxRequests == 3

CanQueueInit ==
    [phase |-> "idle", op |-> "none", tries |-> 0, discarded |-> 0,
     m2 |-> <<>>, result |-> CanNoResult, last |-> NoFrame, at |-> "idle",
     req |-> NoRequest, sent |-> <<>>, resp |-> <<>>,
     rx |-> <<>>, left |-> <<>>, reply |-> <<>>, got |-> 0, from |-> <<>>,
     calls |-> 0]

QueueRequests ==
    {CanRequest("write_parameter", 1, 258), CanRequest("read_parameter", 1, 0)}

\* the response to call n: four frames with the header of protocol version
\* v, and a target frame (0x400) before the frame at position gap if gap > 0
Response(n, v, gap) ==
    LET own == <<CanFrame("data", RESPONSE_ID, HeaderData(v)),
                 CanFrame("data", RESPONSE_ID, MessageData(1, 0, 0)),
                 CanFrame("data", RESPONSE_ID, MessageData(2, 0, 40 + n)),
                 CanFrame("data", RESPONSE_ID, MessageData(3, 0, 0))>>
        tagged == [i \in 1..4 |-> [frame |-> own[i], of |-> n]]
        target == [frame |-> CanFrame("data", 1024, HeaderData(5)), of |-> 0]
    IN  IF gap = 0 THEN tagged
        ELSE SubSeq(tagged, 1, gap - 1) \o <<target>> \o SubSeq(tagged, gap, 4)

\* the socket hands out the frame queued last and drops the others
sock_read_newest(rx) == [frame |-> rx[Len(rx)], rest |-> <<>>]

\* can.read_frame().await: the frame at the head of the receive queue
sock_read(rx) == [frame |-> rx[1], rest |-> SubSeq(rx, 2, Len(rx))]

\* send_instruction and the call of recv_response; written is the number of
\* write_frame calls that succeed; the sensor answers a whole instruction
QueueCall(r, v, gap) ==
    /\ crashed = "none"
    /\ can.phase = "idle"
    /\ can.calls < MaxRequests
    /\ \E written \in 0..3 :
        can' = IF written = 3
               THEN [can EXCEPT !.phase = "header", !.op = r.op, !.req = r,
                        !.tries = 0, !.discarded = 0, !.m2 = <<>>,
                        !.result = CanNoResult, !.last = NoFrame, !.at = "idle",
                        !.sent = InstructionFrames[r], !.resp = <<>>,
                        !.left = can.rx, !.reply = Response(can.calls + 1, v, gap),
                        !.rx = @ \o Response(can.calls + 1, v, gap),
                        !.got = 0, !.from = <<>>, !.calls = @ + 1]
               ELSE [can EXCEPT !.op = r.op, !.req = r,
                        !.tries = 0, !.discarded = 0, !.m2 = <<>>,
                        !.result = CanErr("Io", 0), !.last = NoFrame, !.at = "idle",
                        !.sent = SubSeq(InstructionFrames[r], 1, written),
                        !.resp = <<>>, !.left = can.rx, !.reply = <<>>,
                        !.got = 0, !.from = <<>>, !.calls = @ + 1]
    /\ UNCHANGED <<reader, ret, crashed, hist, msg, stream, net, cubes, win, pubs,
                 clus>>

\* the engine after recv_response read the frame at the head of the queue
QueueTake(o) ==
    [o.st EXCEPT !.rx = sock_read(can.rx).rest, !.got = @ + 1,
                 !.from = IF Len(o.st.resp) > Len(can.resp)
                          THEN Append(@, sock_read(can.rx).frame.of) ELSE @]

QueueRecvHeader ==
    /\ crashed = "none"
    /\ can.phase = "header"
    /\ can.rx # <<>>
    /\ can' = QueueTake(recv_header(can, sock_read(can.rx).frame.frame))
    /\ crashed' = recv_header(can, sock_read(can.rx).frame.frame).crash
    /\ UNCHANGED <<reader, ret, hist, msg, stream, net, cubes, win, pubs,
                 clus>>

QueueRecvMessage ==
    /\ crashed = "none"
    /\ can.phase \in {"m1", "m2", "m3"}
    /\ can.rx # <<>>
    /\ can' = QueueTake(recv_message(can, sock_read(can.rx).frame.frame))
    /\ crashed' = recv_message(can, sock_read(can.rx).frame.frame).crash
    /\ UNCHANGED <<reader, ret, hist, msg, stream, net, cubes, win, pubs,
                 clus>>

InitCanQueue ==
    /\ reader = new
    /\ ret = RetNone
    /\ crashed = "none"
    /\ hist = FreshHist
    /\ can = CanQueueInit
    /\ msg = MsgInit
    /\ stream = StreamInit
    /\ net = NetInit
    /\ cubes = CubesInit
    /\ win = WinInit(WindowSize)
    /\ pubs = PubsInit
    /\ clus = ClusInit

NextCanQueue ==
    \/ \E r \in QueueRequests, v \in {5, 2, 4}, gap \in 0..4 : QueueCall(r, v, gap)
    \/ QueueRecvHeader
    \/ QueueRecvMessage

SpecCanQueue == InitCanQueue /\ [][NextCanQueue]_vars

(***************************************************************************)
(* Streaming.  SpecStream runs stream without clustering, frame by frame   *)
(* of the CAN bus.                                                         *)
(***************************************************************************)
\* main, from the clustering setup to the call of stream
main(clustering) ==
    /\ crashed = "none"
    /\ stream.pc = "main"
    /\ stream' = [stream EXCEPT !.pc = "read", !.clustering = clustering,
                                !.rx = IF clustering THEN "recv" ELSE "none"]
    /\ UNCHANGED <<reader, ret, crashed, hist, can, msg, net, cubes, win, pubs,
                 clus>>

\* stream calls read_message
CallReadMessage ==
    /\ crashed = "none"
    /\ stream.pc = "read"
    /\ msg.phase = "idle"
    /\ msg.calls < MaxCalls
    /\ msg' = [MsgInit EXCEPT !.phase = "search", !.calls = msg.calls + 1,
                              !.prev = IF msg.result.tag = "Ok" THEN <<"Ok">>
                                       ELSE <<msg.result.kind>> \o msg.result.text]
    /\ UNCHANGED <<reader, ret, crashed, hist, can, stream, net, cubes, win, pubs,
                 clus>>

\* read_message reads the frame f; when it returns, stream matches the result
ReadMessageFrame(f) ==
    /\ crashed = "none"
    /\ msg.phase # "idle"
    /\ LET o == read_message(msg, f) IN
        /\ msg' = o.st
        /\ crashed' = o.crash
        /\ stream' = IF o.crash # "none" THEN [stream EXCEPT !.pc = "dead"]
                     ELSE IF o.st.phase # "idle" THEN stream
                     ELSE stream_match(stream, o.st.result.tag)
    /\ UNCHANGED <<reader, ret, hist, can, net, cubes, win, pubs,
                 clus>>

\* format_targets and targets_publisher.put; ok is whether timestamp() and
\* the serializer succeed (their error ends stream, and main unwraps it)
PublishTargets(ok) ==
    /\ crashed = "none"
    /\ stream.pc = "publish"
    /\ IF ok
       THEN /\ stream' = [stream EXCEPT !.published = Append(@, stream.held),
                                        !.pc = "read"]
            /\ UNCHANGED crashed
       ELSE /\ stream' = [stream EXCEPT !.pc = "dead"]
            /\ crashed' = "panic"
    /\ UNCHANGED <<reader, ret, hist, can, msg, net, cubes, win, pubs,
                 clus>>

NextStream ==
    \/ main(FALSE)
    \/ CallReadMessage
    \/ \E f \in TargetFrames : ReadMessageFrame(f)
    \/ \E ok \in BOOLEAN : PublishTargets(ok)

SpecStream == Init /\ [][NextStream]_vars

(***************************************************************************)
(* SpecPipeline runs stream with clustering and the clustering worker;     *)
(* read_message is taken by its result.                                    *)
(***************************************************************************)
\* stream calls read_message, which returns Ok or Err, or panics in
\* read_frame (a remote frame, an error frame, a data frame shorter than
\* eight bytes): the panic unwinds through stream
Acquire(tag) ==
    /\ crashed = "none"
    /\ stream.pc = "read"
    /\ stream.acquired < MaxAcquired
    /\ IF tag = "Panic"
       THEN /\ stream' = [stream EXCEPT !.pc = "dead"]
            /\ crashed' = "panic"
       ELSE /\ stream' = stream_match(stream, tag)
            /\ UNCHANGED crashed
    /\ UNCHANGED <<reader, ret, hist, can, msg, net, cubes, win, pubs,
                 clus>>

\* tx.send(targets.to_vec()).await.unwrap(): waits while the channel is
\* full, panics when the receiver is gone
SendTargets ==
    /\ crashed = "none"
    /\ stream.pc = "send"
    /\ IF stream.rx = "dead"
       THEN /\ stream' = [stream EXCEPT !.pc = "dead"]
            /\ crashed' = "panic"
       ELSE /\ Len(stream.chan) < CLUSTER_CHANNEL
            /\ stream' = [stream EXCEPT !.chan = Append(@, stream.held),
                                        !.pc = "publish"]
            /\ UNCHANGED crashed
    /\ UNCHANGED <<reader, ret, hist, can, msg, net, cubes, win, pubs,
                 clus>>

\* clustering_task: rx.recv(), timestamp()? and the window; ok is whether
\* timestamp() succeeds (its error ends the task and the thread unwraps it)
ClusterRecv(ok) ==
    /\ crashed = "none"
    /\ stream.rx = "recv"
    /\ stream.chan # <<>>
    /\ stream' = IF ok
                 THEN [stream EXCEPT !.chan = Tail(@), !.rx = "publish",
                                     !.window = window_push(@, Head(stream.chan))]
                 ELSE [stream EXCEPT !.chan = <<>>, !.rx = "dead"]
    /\ UNCHANGED <<reader, ret, crashed, hist, can, msg, net, cubes, win, pubs,
                 clus>>

\* clustering_task: format_clusters(..)? and publisher.put
ClusterPublish(ok) ==
    /\ crashed = "none"
    /\ stream.rx = "publish"
    /\ stream' = IF ok
                 THEN [stream EXCEPT !.rx = "recv",
                          !.cluster = <<[frame |-> stream.window[Len(stream.window)],
                                         window |-> stream.window,
                                         published |-> Len(stream.published)]>>]
                 ELSE [stream EXCEPT !.chan = <<>>, !.rx = "dead"]
    /\ UNCHANGED <<reader, ret, crashed, hist, can, msg, net, cubes, win, pubs,
                 clus>>

NextPipeline ==
    \/ main(TRUE)
    \/ \E tag \in {"Ok", "Err", "Panic"} : Acquire(tag)
    \/ SendTargets
    \/ \E ok \in BOOLEAN : PublishTargets(ok)
    \/ \E ok \in BOOLEAN : ClusterRecv(ok)
    \/ \E ok \in BOOLEAN : ClusterPublish(ok)

SpecPipeline == Init /\ [][NextPipeline]_vars

(***************************************************************************)
(* SpecIngress runs port5, port63 and the receiving end of cube_loop.      *)
(***************************************************************************)
\* recvmmsg / recv_from returns a chunk
IngressRecv(p) ==
    /\ net.pc[p] = "recv"
    /\ net.next < MaxChunks
    /\ net' = [net EXCEPT !.pc[p] = "send", !.next = @ + 1]
    /\ UNCHANGED <<reader, ret, crashed, hist, can, msg, stream, cubes, win, pubs,
                 clus>>

\* tx.send(chunk).await: Err once cube_loop has ended and dropped the
\* receiver (the error is logged and the chunk dropped), else the chunk
\* enters the channel when it has room
IngressSend(p) ==
    /\ net.pc[p] = "send"
    /\ IF crashed # "none"
       THEN net' = [net EXCEPT !.pc[p] = "recv"]
       ELSE /\ SendReady(net.queue)
            /\ net' = [net EXCEPT !.queue = Append(@, net.sent + 1),
                                  !.pc[p] = "recv", !.sent = @ + 1]
    /\ UNCHANGED <<reader, ret, crashed, hist, can, msg, stream, cubes, win, pubs,
                 clus>>

port5 == IngressRecv(5) \/ IngressSend(5)

port63 == IngressRecv(63) \/ IngressSend(63)

\* cube_loop: rx.recv().await
CubeRecv ==
    /\ crashed = "none"
    /\ net.queue # <<>>
    /\ net' = [net EXCEPT !.queue = Tail(@), !.taken = @ + 1]
    /\ UNCHANGED <<reader, ret, crashed, hist, can, msg, stream, cubes, win, pubs,
                 clus>>

NextIngress == port5 \/ port63 \/ CubeRecv

SpecIngress == Init /\ [][NextIngress]_vars

(***************************************************************************)
(* The receive slots.  port5 and port63 receive every datagram into a slot *)
(* of SMS_PACKET_SIZE bytes of a buffer they use again and send whole      *)
(* slots; cube_loop hands reader.read the slot, never the datagram alone.  *)
(***************************************************************************)
\* recvmmsg / recv_from into a slot: the datagram overwrites the first bytes
\* of the slot and is cut at its size; behind a shorter datagram the slot
\* keeps the bytes it held
recv_into(slot, bytes) ==
    [i \in 1..Len(slot) |-> IF i <= Len(bytes) THEN bytes[i] ELSE slot[i]]

\* vec![0; ..]: a slot nothing was received into
FreshSlot == Zeros(SMS_PACKET_SIZE)

\* elements a START_OF_FRAME of SMS_PACKET_SIZE bytes carries behind the
\* transport, debug, port and cube headers, and payload bytes a data
\* datagram of that size carries behind the transport and debug headers
StartRoom == (SMS_PACKET_SIZE - (MIN_LEN + 2 + DEBUG_LEN + PORT_LEN + CUBE_LEN)) \div 4

DataRoom == SMS_PACKET_SIZE - (MIN_LEN + 2 + DEBUG_LEN)

\* cubes of 700 and 1060 elements: a START_OF_FRAME and one, or two, data
\* datagrams of SMS_PACKET_SIZE bytes reach the end of the cube
SlotLayouts == {<<1, 2, 1, 350>>, <<1, 2, 1, 530>>}

\* the datagrams offered to cube_loop: START_OF_FRAME and data datagrams of
\* SMS_PACKET_SIZE bytes, the shorter footers and raw datagrams, and a
\* START_OF_FRAME of 86 bytes
SlotInputs ==
    {Desc("start", fc, 0, sh, StartRoom, "ok") : fc \in Frames, sh \in SlotLayouts}
    \cup {Desc("data", fc, mc, NoShape, DataRoom, "data") :
              fc \in Frames, mc \in 1..MaxMsg}
    \cup {Desc("start", 1, 0, <<1, 2, 1, 2>>, 0, "ok")}
    \cup FooterInputs \cup RawInputs

\* the slot cube_loop reads for a datagram received into a fresh slot
InputSlots == [d \in SlotInputs |-> recv_into(FreshSlot, Bytes(d))]

(***************************************************************************)
(* SpecCube runs cube_loop on slots whose START_OF_FRAMEs carry increasing *)
(* frame counters: reader.read, then the match on its result.              *)
(***************************************************************************)
\* one slot through cube_loop; ok is whether format_cube succeeds (its
\* error is unwrapped)
CubeLoop(d, ok) ==
    /\ crashed = "none"
    /\ d.k = "data" => (IF hist.closed THEN 0 ELSE hist.ndata) < MaxData
    /\ d.k = "start" => d.fc > cubes.last
    /\ \E o \in read(reader, InputSlots[d]) :
        LET cs == cube_match([cubes EXCEPT !.last = IF d.k = "start" THEN d.fc ELSE @],
                             o.ret)
            failed == o.crash = "none" /\ cs.ev = "published" /\ ~ok
        IN
        /\ reader' = o.st
        /\ ret' = o.ret
        /\ crashed' = IF failed THEN "panic" ELSE o.crash
        /\ hist' = HistNext(hist, d, reader, o)
        /\ cubes' = IF failed THEN [cubes EXCEPT !.ev = "none"] ELSE cs
    /\ UNCHANGED <<can, msg, stream, net, win, pubs,
                 clus>>

NextCube == \E d \in SlotInputs, ok \in BOOLEAN : CubeLoop(d, ok)

SpecCube == Init /\ [][NextCube]_vars

(***************************************************************************)
(* SpecPorts runs the two ingress tasks and cube_loop on the datagrams of  *)
(* one or two whole frames: the START_OF_FRAME and the data of a frame      *)
(* arrive on port 50005 in the order sent, its FRAME_FOOTER on port 50063.  *)
(* net is here                                                              *)
(*   wire   per port the datagrams that arrived on the socket, not yet read *)
(*   buf    per port the receive buffer, a sequence of slots; of the VLEN   *)
(*          slots of port5 those a batch of the model reaches               *)
(*   hold   per port the chunk copied from the buffer, not yet sent         *)
(*   queue  the chunks in the channel                                      *)
(*   cur    the slots of the chunk cube_loop received that it has not read  *)
(*   cpc    where cube_loop is: "recv" (at rx.recv) or "loop" (in the loop  *)
(*          over the slots of a chunk)                                     *)
(*   order  the datagrams cube_loop has read, in that order                 *)
(*   plan   per port the datagrams the radar sent                          *)
(* A chunk is a sequence of slots [d, bytes]: the bytes of the slot and the *)
(* datagram received into it.                                              *)
(***************************************************************************)
VLEN == 64

MaxBatch == 2

FullStart(fc, sh) == Desc("start", fc, 0, sh, StartRoom, "ok")

FullData(fc, mc) == Desc("data", fc, mc, NoShape, DataRoom, "data")

\* the datagrams of frame 1 on port 50005: the second data datagram lies
\* wholly beyond the cube, or (second line) reaches its end; third line: a
\* START_OF_FRAME of 86 bytes
Frame1 ==
    {<<FullStart(1, <<1, 2, 1, 350>>), FullData(1, 1), FullData(1, 2)>>,
     <<FullStart(1, <<1, 2, 1, 530>>), FullData(1, 1), FullData(1, 2)>>,
     <<Desc("start", 1, 0, <<1, 2, 1, 2>>, 0, "ok"), FullData(1, 1)>>}

\* the datagrams of frame 2 on port 50005, if a second frame is sent
Frame2 ==
    {<<>>,
     <<FullStart(2, <<1, 2, 1, 350>>), FullData(2, 1)>>}

Footer(fc) == Desc("footer", fc, -1, NoShape, 0, "ok")

Plans ==
    {[p \in Ports |-> IF p = 5 THEN a \o b
                      ELSE IF b = <<>> THEN <<Footer(1)>> ELSE <<Footer(1), Footer(2)>>] :
        a \in Frame1, b \in Frame2}

\* the slots of a receive buffer that a batch can reach
Slots(p) == IF p = 5 THEN Min(VLEN, MaxBatch) ELSE 1

PortsInit(plan) ==
    [queue |-> <<>>, pc |-> [p \in Ports |-> "recv"], wire |-> plan,
     buf |-> [p \in Ports |-> [i \in 1..Slots(p) |-> FreshSlot]],
     hold |-> [p \in Ports |-> <<>>], cur |-> <<>>, cpc |-> "recv",
     order |-> <<>>, plan |-> plan]

\* the bytes of the datagrams of the plans
SlotBytes == [d \in SlotInputs |-> Bytes(d)]

\* recvmmsg returns up to VLEN datagrams of port 50005, each in its slot,
\* recv_from one datagram of port 50063; the chunk is the copy of the slots
\* received into
PortRecv(p, n) ==
    /\ net.pc[p] = "recv"
    /\ n <= Len(net.wire[p])
    /\ n <= Slots(p)
    /\ LET buf == [i \in 1..Slots(p) |->
                      IF i <= n THEN recv_into(net.buf[p][i], SlotBytes[net.wire[p][i]])
                      ELSE net.buf[p][i]]
       IN  net' = [net EXCEPT !.pc[p] = "send",
                              !.buf[p] = buf,
                              !.hold[p] = [i \in 1..n |->
                                              [d |-> net.wire[p][i], bytes |-> buf[i]]],
                              !.wire[p] = SubSeq(@, n + 1, Len(@))]
    /\ UNCHANGED <<reader, ret, crashed, hist, can, msg, stream, cubes, win, pubs,
                 clus>>

\* tx.send(chunk).await: Err once cube_loop has ended and dropped the
\* receiver (the error is logged and the chunk dropped), else the chunk
\* enters the channel when it has room
PortSend(p) ==
    /\ net.pc[p] = "send"
    /\ IF crashed # "none"
       THEN net' = [net EXCEPT !.pc[p] = "recv", !.hold[p] = <<>>]
       ELSE /\ SendReady(net.queue)
            /\ net' = [net EXCEPT !.pc[p] = "recv", !.hold[p] = <<>>,
                                  !.queue = Append(@, net.hold[p])]
    /\ UNCHANGED <<reader, ret, crashed, hist, can, msg, stream, cubes, win, pubs,
                 clus>>

\* cube_loop: rx.recv().await
cube_loop_recv ==
    /\ crashed = "none"
    /\ net.cpc = "recv"
    /\ net.queue # <<>>
    /\ net' = [net EXCEPT !.queue = SubSeq(@, 2, Len(@)), !.cur = net.queue[1],
                          !.cpc = IF net.queue[1] = <<>> THEN "recv" ELSE "loop"]
    /\ UNCHANGED <<reader, ret, crashed, hist, can, msg, stream, cubes, win, pubs,
                 clus>>

\* cube_loop, one turn of for i in 0..n_msg: reader.read of the slot, then
\* the match on its result; ok is whether format_cube succeeds (its error
\* is unwrapped)
cube_loop_read(ok) ==
    /\ crashed = "none"
    /\ net.cpc = "loop"
    /\ \E o \in read(reader, net.cur[1].bytes) :
        LET cs == cube_match(cubes, o.ret)
            failed == o.crash = "none" /\ cs.ev = "published" /\ ~ok
            rest == SubSeq(net.cur, 2, Len(net.cur))
        IN
        /\ reader' = o.st
        /\ ret' = o.ret
        /\ crashed' = IF failed THEN "panic" ELSE o.crash
        /\ hist' = HistNext(hist, net.cur[1].d, reader, o)
        /\ cubes' = IF failed THEN [cubes EXCEPT !.ev = "none"] ELSE cs
        /\ net' = [net EXCEPT !.cur = rest,
                              !.cpc = IF rest = <<>> THEN "recv" ELSE "loop",
                              !.order = Append(@, net.cur[1].d)]
    /\ UNCHANGED <<can, msg, stream, win, pubs,
                 clus>>

InitPorts ==
    /\ reader = new
    /\ ret = RetNone
    /\ crashed = "none"
    /\ hist = FreshHist
    /\ can = CanInit
    /\ msg = MsgInit
    /\ stream = StreamInit
    /\ net \in {PortsInit(plan) : plan \in Plans}
    /\ cubes = CubesInit
    /\ win = WinInit(WindowSize)
    /\ pubs = PubsInit
    /\ clus = ClusInit

NextPorts ==
    \/ \E n \in 1..MaxBatch : PortRecv(5, n)
    \/ PortRecv(63, 1)
    \/ PortSend(5)
    \/ PortSend(63)
    \/ cube_loop_recv
    \/ \E ok \in BOOLEAN : cube_loop_read(ok)

SpecPorts == InitPorts /\ [][NextPorts]_vars

(***************************************************************************)
(* SpecWindow runs the window of clustering_task for every window_size in  *)
(* 0..MaxWindow.                                                           *)
(***************************************************************************)
InitWindow ==
    /\ reader = new
    /\ ret = RetNone
    /\ crashed = "none"
    /\ hist = FreshHist
    /\ can = CanInit
    /\ msg = MsgInit
    /\ stream = StreamInit
    /\ net = NetInit
    /\ cubes = CubesInit
    /\ win \in {WinInit(W) : W \in 0..MaxWindow}
    /\ pubs = PubsInit
    /\ clus = ClusInit

\* one turn of the worker's loop on a frame of n targets
WindowRecv(n) ==
    /\ win.received < MaxRecv
    /\ win' = [win EXCEPT !.received = @ + 1,
                          !.window = window_slide(win.size, @,
                                        [id |-> win.received + 1, n |-> n])]
    /\ UNCHANGED <<reader, ret, crashed, hist, can, msg, stream, net, cubes, pubs,
                 clus>>

NextWindow == \E n \in 0..MaxTargets : WindowRecv(n)

SpecWindow == InitWindow /\ [][NextWindow]_vars

(***************************************************************************)
(* SpecPublish runs the put of the five publishing tasks; ok is whether    *)
(* the put returns Ok.                                                     *)
(***************************************************************************)
Put(t, p) ==
    /\ pubs[t].alive
    /\ pubs[t].puts < MaxPuts
    /\ pubs' = [pubs EXCEPT ![t] = p]
    /\ UNCHANGED <<reader, ret, crashed, hist, can, msg, stream, net, cubes, win,
                 clus>>

\* stream: targets_publisher.put
TargetsPut(ok) == Put("targets", put_match(pubs["targets"], ok))

\* clustering_task: publisher.put
ClustersPut(ok) == Put("clusters", put_match(pubs["clusters"], ok))

\* cube_loop: cube_publisher.put
CubePut(ok) == Put("cube", put_match(pubs["cube"], ok))

\* tf_static: one tick of its interval
tf_static(ok) == Put("tf_static", put_try(pubs["tf_static"], ok))

\* radar_info: one tick of its interval
radar_info(ok) == Put("info", put_try(pubs["info"], ok))

NextPublish ==
    \E ok \in BOOLEAN :
        \/ TargetsPut(ok)
        \/ ClustersPut(ok)
        \/ CubePut(ok)
        \/ tf_static(ok)
        \/ radar_info(ok)

SpecPublish == Init /\ [][NextPublish]_vars

(***************************************************************************)
(* SpecCluster calls Clustering::cluster as clustering_task does, frame    *)
(* after frame with an advancing timestamp.                                *)
(***************************************************************************)
\* the --clustering-eps values offered: 4 mm, whose boxes of 3 mm a side
\* are smaller than EPSILON, and the default of 1 m
EpsValues == {4, 1000}

InitCluster ==
    /\ reader = new
    /\ ret = RetNone
    /\ crashed = "none"
    /\ hist = FreshHist
    /\ can = CanInit
    /\ msg = MsgInit
    /\ stream = StreamInit
    /\ net = NetInit
    /\ cubes = CubesInit
    /\ win = WinInit(WindowSize)
    /\ pubs = PubsInit
    /\ clus \in {[ClusInit EXCEPT !.clustering_eps = e] : e \in EpsValues}

Cluster(frame, dt) ==
    /\ crashed = "none"
    /\ clus.calls < MaxClusterCalls
    /\ \E o \in cluster(clus, frame, clus.timestamp + dt) :
        /\ clus' = o.st
        /\ crashed' = o.crash
    /\ UNCHANGED <<reader, ret, hist, can, msg, stream, net, cubes, win, pubs>>

NextCluster == \E frame \in ClusterFrames, dt \in Delays : Cluster(frame, dt)

SpecCluster == InitCluster /\ [][NextCluster]_vars

(***************************************************************************)
(* SpecTrack applies ByteTrack::update, with its two assignment passes in  *)
(* detail, to every list of boxes (high and low score) and every list of   *)
(* tracklets within the bounds.  clus is here [boxes, tracklets, uuids,    *)
(* timestamp, pre, info, out]: the boxes and the timestamp of the call,    *)
(* the tracklets of the tracker, and, once update ran, the tracklets it    *)
(* found at its entry (pre), the Option<TrackInfo> it returned for every   *)
(* box (info) and the outcome of its passes (out).                         *)
(***************************************************************************)
MaxBoxes == 2

MaxTracklets == 3

\* scores in tenths: below and above track_high_conf
Scores == {3, 10}

SeqsUpTo(S, k) == UNION {[1..len -> S] : len \in 0..k}

\* the side of the square at each place, in quarters of a millimetre:
\* everywhere the empty box of clustering_eps 0, the box of 2 mm or the box
\* of 1 m, or a square of 3 mm (9 square millimetres, below EPSILON) at
\* place 1 and one of 3.25 mm (above EPSILON) at the other
Sizes ==
    {[p \in Places |-> a] : a \in {0, 6, 3000}}
    \cup {[p \in Places |-> IF p = 1 THEN 12 ELSE 13]}

\* sz is the side of the boxes at each place
TrackBoxes(sz) ==
    {[i \in 1..Len(b) |-> [place |-> b[i][1], side |-> sz[b[i][1]],
                           score |-> b[i][2], label |-> i]] :
        b \in SeqsUpTo(Places \X Scores, MaxBoxes)}

\* the tracklets at the entry of the call, which comes at 2500 ms: the
\* first has expired half a second ago, the second expires at the
\* timestamp of the call, the others later
TrackTracklets ==
    {[x \in 1..Len(q) |-> [id |-> x, place |-> q[x], expiry |-> 1500 + 500 * x]] :
        q \in SeqsUpTo(Places, MaxTracklets)}

InitTrack ==
    /\ reader = new
    /\ ret = RetNone
    /\ crashed = "none"
    /\ hist = FreshHist
    /\ can = CanInit
    /\ msg = MsgInit
    /\ stream = StreamInit
    /\ net = NetInit
    /\ cubes = CubesInit
    /\ win = WinInit(WindowSize)
    /\ pubs = PubsInit
    /\ clus \in UNION {{[boxes |-> b, tracklets |-> q, uuids |-> Len(q),
                           timestamp |-> 2500, pre |-> <<>>, info |-> <<>>,
                           out |-> <<>>] :
                            b \in TrackBoxes(sz), q \in TrackTracklets} :
                        sz \in Sizes}

\* tracker.update(&settings, &mut boxes, timestamp): the two passes, the
\* update of the matched tracklets, the removal of the expired ones and a
\* new tracklet for every unmatched box of high confidence.  A matched box
\* takes the predicted box of its tracklet, the square it is already.  A
\* failed assert ends the call where it is.
Update ==
    /\ crashed = "none"
    /\ clus.out = <<>>
    /\ \E a \in associate(clus.boxes, clus.tracklets, TrackSettings_default) :
        LET s == TrackSettings_default
            f == [i \in a.matched |-> a.info[i]]
            t2 == apply_matches(clus.tracklets, f, s, clus.timestamp)
            info == [i \in 1..Len(clus.boxes) |->
                        IF i \in a.matched THEN <<clus.tracklets[a.info[i]].id>>
                        ELSE <<>>]
            t3 == remove_expired(t2, Len(t2), clus.timestamp)
            t4 == new_tracklets([tracklets |-> t3, info |-> info,
                                 uuids |-> clus.uuids],
                                s, clus.boxes, high_conf_ind(s, clus.boxes),
                                a.matched, clus.timestamp, 1)
        IN  /\ clus' = IF a.panic
                       THEN [clus EXCEPT !.pre = clus.tracklets, !.out = <<a>>]
                       ELSE [clus EXCEPT !.tracklets = t4.tracklets,
                                         !.uuids = t4.uuids, !.info = t4.info,
                                         !.pre = clus.tracklets, !.out = <<a>>]
            /\ crashed' = IF a.panic THEN "panic" ELSE "none"
    /\ UNCHANGED <<reader, ret, hist, can, msg, stream, net, cubes, win, pubs>>

NextTrack == Update

SpecTrack == InitTrack /\ [][NextTrack]_vars

(***************************************************************************)
(* The streams the reassembler properties speak of, read off the history.  *)
(***************************************************************************)
HistVolume == hist.sh[1] * hist.sh[2] * hist.sh[3] * hist.sh[4]

\* the datagram read last is the first footer since the reader was Idle
FirstFooter == hist.ev = "footer" /\ ~hist.footed

\* START_OF_FRAME, consecutive data of the same frame covering the whole
\* extent, then the footer of that frame
CompleteStream ==
    /\ hist.pure /\ hist.active /\ ~hist.switched /\ FirstFooter
    /\ hist.ffc = hist.fc /\ ~hist.foreign
    /\ hist.gaps = 0 /\ hist.offered >= HistVolume

\* the same stream with exactly one data datagram of L bytes, lying inside
\* the extent, dropped
OneDropped ==
    /\ hist.pure /\ hist.active /\ ~hist.switched /\ FirstFooter
    /\ hist.ffc = hist.fc /\ ~hist.foreign
    /\ hist.gaps = 1 /\ hist.gap1 /\ hist.L > 0 /\ hist.L % 4 = 0
    /\ hist.gapAt + hist.L \div 4 <= HistVolume
    /\ hist.offered + hist.L \div 4 >= HistVolume
    /\ hist.sh[4] % 2 = 0

\* a START of another frame arrived while a frame was open, and the footer
\* read last is the first one since
SwitchedFooter == hist.pure /\ hist.active /\ hist.switched /\ FirstFooter

Idle(r) == r.cube_header = <<>> /\ r.cube = <<>> /\ r.error = <<>>

Emitted == ret.tag = "Cube"

EmittedCube == ret.cube[1]

\* C1: a complete stream makes the footer emit exactly one cube with
\* missing_data = 0, packets_skipped = 0 and the shape of the START's cube
\* header.  Refuted: an odd doppler_bins panics in the half swap.
C1_CompleteStreamEmits ==
    CompleteStream =>
        /\ crashed = "none"
        /\ Emitted
        /\ EmittedCube.missing_data = 0
        /\ EmittedCube.packets_skipped = 0
        /\ EmittedCube.shape = hist.sh

\* C2: with one data datagram of L bytes dropped the footer still emits a
\* cube, with packets_skipped = 1 and missing_data = L / 4, wherever the
\* dropped datagram was.  Refuted: when the dropped datagram was the last
\* one inside the extent the gap is not counted.
C2_OneDroppedAccounted ==
    OneDropped =>
        /\ Emitted
        /\ EmittedCube.packets_skipped = 1
        /\ EmittedCube.missing_data = hist.L \div 4

\* C3 as stated: after two STARTs of different frame counters the first
\* footer returns FrameCounterError and no cube.  Refuted: the second START
\* resets the reader and latches nothing (*self = Self::default()), so the
\* footer of the second frame is handled as the footer of a frame of its
\* own and emits its cube.
C3_Original ==
    SwitchedFooter => ret = RetErr(Err0("FrameCounterError"))

\* what frame_footer does after two STARTs of different frame counters: it
\* returns FrameCounterError exactly when its frame counter differs from
\* the latest START's or a data datagram of another frame counter followed
\* that START
FooterAfterSwitch ==
    SwitchedFooter =>
        (ret = RetErr(Err0("FrameCounterError"))
            <=> (hist.ffc # hist.fc \/ hist.foreign))

\* C4: frame A in flight, START of B, all of B's data, footer of B: exactly
\* one error was returned, no cube for A, a clean cube for B.  Refuted: the
\* START of B silently discards A and no error is ever returned.
C4_MidCubeChange ==
    (/\ SwitchedFooter /\ hist.ffc = hist.fc /\ ~hist.foreign
     /\ hist.gaps = 0 /\ hist.offered >= HistVolume /\ hist.sh[4] % 2 = 0)
    => /\ hist.errs = 1
       /\ Emitted
       /\ EmittedCube.frame_counter = hist.fc
       /\ EmittedCube.missing_data = 0

\* C5: every read that returns an error leaves the reader Idle.  Refuted:
\* MissingCubeData returns without the reset.
C5_ErrorLeavesIdle ==
    ret.tag = "Err" => Idle(reader)

\* buffer index (0-based, row-major) of element [c][r][x][dd] of shape sh
Lin(sh, c, r, x, dd) == ((c * sh[2] + r) * sh[3] + x) * sh[4] + dd

\* all index tuples of shape sh
Indices(sh) ==
    (0..(sh[1] - 1)) \X (0..(sh[2] - 1)) \X (0..(sh[3] - 1)) \X (0..(sh[4] - 1))

\* where the claimed relation puts buffer element [c][r][x][dd]
Reshaped(sh, ix) ==
    Lin(sh, ix[1], sh[2] - 1 - ix[2], ix[3], (ix[4] + sh[4] \div 2) % sh[4])

\* frame_counter of the datagram an element was sampled from
SampleFrame(e) == e[2] \div 256

Unwritten == {ix \in Indices(EmittedCube.shape) :
                hist.buf[Lin(EmittedCube.shape, ix[1], ix[2], ix[3], ix[4]) + 1] = Sentinel}

\* C6: in every emitted cube missing_data is the number of positions no
\* datagram wrote, each of them holds the sentinel at its reshaped
\* location, and with missing_data = 0 every element comes from a datagram
\* of the cube's frame.
C6_MissingDataSentinel ==
    Emitted =>
        /\ EmittedCube.missing_data = Cardinality(Unwritten)
        /\ \A ix \in Unwritten :
              EmittedCube.data[Reshaped(EmittedCube.shape, ix) + 1] = Sentinel
        /\ EmittedCube.missing_data = 0 =>
              \A i \in 1..Len(EmittedCube.data) :
                  /\ EmittedCube.data[i] # Sentinel
                  /\ SampleFrame(EmittedCube.data[i]) = EmittedCube.frame_counter

C6_Witness ==
    /\ Emitted
    /\ EmittedCube.missing_data > 0
    /\ \E i \in 1..Len(EmittedCube.data) : EmittedCube.data[i] # Sentinel
    /\ EmittedCube.packets_captured >= 2

\* C7: the emitted tensor is the stored buffer with the halves of axis 3
\* swapped and axis 1 reversed:
\* out[s][R-1-r][rx][(d' + d/2) mod d] = buf[s][r][rx][d'].
C7_DopplerCenterRangeInvert ==
    Emitted =>
        /\ Len(EmittedCube.data) = Len(hist.buf)
        /\ \A ix \in Indices(EmittedCube.shape) :
              EmittedCube.data[Reshaped(EmittedCube.shape, ix) + 1]
                  = hist.buf[Lin(EmittedCube.shape, ix[1], ix[2], ix[3], ix[4]) + 1]

C7_Witness ==
    /\ Emitted
    /\ EmittedCube.shape = <<2, 2, 2, 4>>
    /\ EmittedCube.missing_data = 0

\* C8: read returns a parsed result or an SMSError for every byte slice and
\* never panics nor reaches outside the slice.  Refuted: unwrap() of a
\* missing message counter, the padding underflow of
\* CubeHeaderSlice::payload, and others.
C8_ReadIsTotal == hist.ev # "init" => crashed = "none"

\* C9: the retry loop reads at most 100 frames while it looks for the first
\* 0x700 frame and drops every other frame; when 100 frames were dropped
\* the operation is over with InvalidResponseId.
C9_BoundedRetry ==
    /\ can.tries <= RETRIES
    /\ (can.phase = "header" /\ crashed = "none") =>
          can.tries < RETRIES /\ can.discarded = can.tries
    /\ (can.discarded = RETRIES /\ crashed = "none") =>
          /\ can.phase = "idle"
          /\ can.result.tag = "Err"
          /\ can.result.kind = "InvalidResponseId"
    /\ (can.at = "header" /\ can.result.kind = "InvalidResponseId") =>
          can.discarded = RETRIES

C9_Witness ==
    /\ can.discarded = RETRIES
    /\ can.phase = "idle"
    /\ can.result.kind = "InvalidResponseId"

\* C10: after the header was accepted, the first of the next three frames
\* whose ID is not 0x700 ends the operation with InvalidResponseId carrying
\* that frame's ID.  Refuted: the ID is cut to 16 bits.
C10_AbortCarriesId ==
    (/\ can.at \in {"m1", "m2", "m3"}
     /\ can.last.kind = "data" /\ Len(can.last.data) >= 8
     /\ can.last.id # RESPONSE_ID)
    => /\ can.phase = "idle"
       /\ can.result = CanErr("InvalidResponseId", can.last.id)

\* the three frames C11 words for write_parameter(parnum, value): all on
\* 0x3FB, the header first, then message1 with the parameter, then message2
\* with the value, the header's bytes 6..7 the CRC of header[..6], message1
\* and message2 (UAT 2010 is 0x07DA)
C11_Triplet ==
    [r \in {q \in Requests : q.op = "write_parameter"} |->
        LET h6 == <<218, 7, 0, 4, 0, 1>>
            m1 == <<218, 7, 1, 2, r.parnum % 256, r.parnum \div 256, 0, 0>>
            m2 == <<218, 7, 2, 0, r.value % 256, (r.value \div 256) % 256,
                    (r.value \div 65536) % 256, r.value \div 16777216>>
            crc == CrcUpdate(65535, h6 \o m1 \o m2)
        IN << <<1019, h6 \o <<crc % 256, crc \div 256>> >>, <<1019, m1>>, <<1019, m2>> >>]

TripletOnBus == can.sent = C11_Triplet[can.req]

\* C11: write_parameter writes exactly three frames on 0x3FB, in the order
\* header, message1, message2, the header's bytes 6..7 holding the CRC over
\* header[..6], message1 and message2, and reads a response only after that;
\* when it returns a value it has consumed exactly four 0x700 frames and the
\* value is the value field of the third of them.
C11_TripletThenFourFrames ==
    can.op = "write_parameter" =>
        /\ Len(can.sent) <= 3
        /\ (can.phase # "idle" \/ can.tries > 0) => TripletOnBus
        /\ Len(can.sent) < 3 =>
              can.phase = "idle" /\ can.tries = 0 /\ can.resp = <<>>
                 /\ can.result = CanErr("Io", 0)
        /\ can.result.tag = "Ok" =>
              /\ can.phase = "idle"
              /\ Len(can.resp) = 4
              /\ can.result.a = can.resp[3][5] + 256 * can.resp[3][6]
                                  + 65536 * can.resp[3][7] + 16777216 * can.resp[3][8]

\* write_parameter(CenterFrequency, 1) returned 298; the CRC of its triplet
\* is 0xA680
C11_Witness ==
    /\ can.op = "write_parameter"
    /\ can.req = CanRequest("write_parameter", 1, 1)
    /\ can.result = CanOk(298)
    /\ Len(can.sent) = 3
    /\ Len(can.resp) = 4
    /\ can.sent[1] = <<1019, <<218, 7, 0, 4, 0, 1, 128, 166>> >>
    /\ can.sent[2] = <<1019, <<218, 7, 1, 2, 1, 0, 0, 0>> >>
    /\ can.sent[3] = <<1019, <<218, 7, 2, 0, 1, 0, 0, 0>> >>
    /\ can.resp[3] = <<0, 0, 2, 0, 42, 1, 0, 0>>
    /\ can.resp[4] # can.resp[3]
    /\ can.discarded > 0

\* the protocol_version of the response header consumed, from its bytes 2..3
RespVersion == can.resp[1][3] + 256 * can.resp[1][4]

\* C12: the reply decides the outcome: version 2 in the response header
\* gives UATCRCError, any other version but 5 gives
\* UATProtocolUnsupported(version), version 5 with a non-zero result byte in
\* the third response frame gives UATError(result), and a value is returned
\* only with version 5 and result 0.
C12_ResponseValidation ==
    /\ (Len(can.resp) >= 1 /\ RespVersion = 2) =>
          can.phase = "idle" /\ can.result = CanErr("UATCRCError", 0)
    /\ (Len(can.resp) >= 1 /\ RespVersion \notin {2, 5}) =>
          can.phase = "idle" /\ can.result = CanErr("UATProtocolUnsupported", RespVersion)
    /\ (Len(can.resp) = 4 /\ can.resp[3][4] # 0) =>
          /\ RespVersion = 5
          /\ can.phase = "idle"
          /\ can.result = CanErr("UATError", can.resp[3][4])
    /\ can.result.tag = "Ok" =>
          Len(can.resp) = 4 /\ RespVersion = 5 /\ can.resp[3][4] = 0
    /\ can.result.kind \in {"UATCRCError", "UATProtocolUnsupported"} =>
          Len(can.resp) = 1 /\ RespVersion # 5
    /\ can.result.kind = "UATError" => Len(can.resp) = 4

\* a complete version 5 reply whose third frame has result 7
C12_Witness ==
    /\ Len(can.resp) = 4
    /\ can.resp[1] = <<0, 0, 5, 0, 0, 1, 0, 0>>
    /\ can.resp[3][4] = 7
    /\ can.resp[2][4] = 0
    /\ can.result = CanErr("UATError", 7)

\* the header a header-0 frame was packed for
HeaderOf(f) ==
    [seconds |-> 0, nanoseconds |-> 0, cycle_duration |-> f.meta[1],
     cycle_counter |-> f.meta[2], n_targets |-> f.meta[3], tx_antenna |-> f.meta[4],
     frequency_sweep |-> f.meta[5], center_frequency |-> f.meta[6]]

\* a data frame with ID 0x400 whose top two data bits are 0
StartsTargetList(f) ==
    f.kind = "data" /\ Len(f.data) = 8 /\ f.id = 1024 /\ f.data[8] < 64

\* C13: read_message discards every frame it reads until one with ID 0x400
\* and sub-header tag 0 arrives; a discarded frame leaves nothing behind, and
\* the header of the returned Frame is decoded from that frame.
C13_SearchForHeader0 ==
    /\ (crashed = "none" /\ msg.at = "search" /\ msg.last.kind = "data"
            /\ Len(msg.last.data) = 8) =>
          IF StartsTargetList(msg.last)
          THEN /\ msg.phase = "h1"
               /\ msg.taken = <<msg.last>>
               /\ msg.header = <<HeaderOf(msg.last)>>
          ELSE /\ msg.phase = "search"
               /\ msg.taken = <<>>
               /\ msg.header = <<>> /\ msg.targets = <<>> /\ msg.i = 0
    /\ (msg.phase = "idle" /\ msg.result.tag = "Ok") =>
          /\ StartsTargetList(msg.taken[1])
          /\ msg.result.frame[1].header = HeaderOf(msg.taken[1])

\* a Frame returned after two frames were discarded: cycle 70002 of 64 ms
C13_Witness ==
    /\ msg.phase = "idle"
    /\ msg.result.tag = "Ok"
    /\ msg.skipped = 2
    /\ msg.result.frame[1].header =
          [seconds |-> 0, nanoseconds |-> 0, cycle_duration |-> 1002,
           cycle_counter |-> 70002, n_targets |-> 2, tx_antenna |-> 1,
           frequency_sweep |-> 2, center_frequency |-> 3]

\* the Target the two packets f0 and f1 were packed for
TargetOf(f0, f1) ==
    [range |-> f0.meta[1], azimuth |-> f0.meta[2] - 511, speed |-> f0.meta[3] - 2992,
     rcs |-> f1.meta[1] - 75, power |-> f1.meta[2], noise |-> f1.meta[3],
     elevation |-> f1.meta[4] - 511]

\* a data frame with ID 0x400 whose top two data bits are type
IsSubHeader(f, type) ==
    f.kind = "data" /\ Len(f.data) = 8 /\ f.id = 1024 /\ f.data[8] \div 64 = type

\* C14: read_message returns a Frame only if, after sub-header 0, the next
\* two frames are ID 0x400 frames with sub-header tags 1 and 2 in that order
\* and then 2 * n_targets target packets follow, both packets of target i
\* with ID 0x401 + i; then exactly 3 + 2 * n_targets frames were consumed and
\* targets[0..n_targets] are filled in ID order.  Refuted: the ID of the
\* two sub-header frames is not looked at.
C14_FrameLayout ==
    (msg.phase = "idle" /\ msg.result.tag = "Ok") =>
        LET n == msg.taken[1].meta[3]
            frame == msg.result.frame[1]
        IN
        /\ Len(msg.taken) = 3 + 2 * n
        /\ IsSubHeader(msg.taken[1], 0)
        /\ IsSubHeader(msg.taken[2], 1)
        /\ IsSubHeader(msg.taken[3], 2)
        /\ Len(frame.targets) = n
        /\ \A i \in 0..(n - 1) :
              /\ msg.taken[4 + 2 * i].id = 1025 + i
              /\ msg.taken[5 + 2 * i].id = 1025 + i
              \* a first packet followed by a second packet
              /\ (Len(msg.taken[4 + 2 * i].meta) = 3 /\ Len(msg.taken[5 + 2 * i].meta) = 4)
                    => frame.targets[i + 1]
                          = TargetOf(msg.taken[4 + 2 * i], msg.taken[5 + 2 * i])

\* the ID read_message expects of the target packet it read last
ExpectedTargetId == 1025 + ((Len(msg.taken) - 4) \div 2)

\* C15: a target packet whose ID is not the expected 0x401 + i ends the call
\* with OutOfSequence and no Frame, partial or whole; the next call starts
\* with the search for an ID 0x400 / tag 0 header and nothing of the
\* abandoned list: the Frame it returns is made of its own frames only.
C15_OutOfSequenceAbandons ==
    /\ (crashed = "none" /\ msg.at \in {"t0", "t1"} /\ msg.last.kind = "data"
            /\ Len(msg.last.data) = 8 /\ msg.last.id # ExpectedTargetId) =>
          /\ msg.phase = "idle"
          /\ msg.result = MsgErr("OutOfSequence", <<"target", ExpectedTargetId, msg.last.id>>)
          /\ msg.result.frame = <<>>
    /\ (msg.result.tag = "Err" /\ msg.result.text # <<>> /\ msg.result.text[1] = "target") =>
          msg.last.id # ExpectedTargetId /\ msg.at \in {"t0", "t1"}
    /\ (msg.prev # <<>> /\ msg.prev[1] = "OutOfSequence") =>
          /\ (msg.phase = "search" /\ crashed = "none") =>
                /\ msg.header = <<>> /\ msg.cur = <<>> /\ msg.targets = <<>>
                /\ msg.i = 0 /\ msg.taken = <<>>
          /\ (msg.phase = "idle" /\ msg.result.tag = "Ok") =>
                /\ StartsTargetList(msg.taken[1])
                /\ msg.result.frame[1].header = HeaderOf(msg.taken[1])
                /\ Len(msg.result.frame[1].targets) = msg.taken[1].meta[3]
                /\ Len(msg.taken) = 3 + 2 * msg.taken[1].meta[3]

\* the second packet of target 0 came with ID 0x402: the call ended with
\* OutOfSequence, and the call after it returned a list of one target
C15_Witness ==
    /\ msg.prev = <<"OutOfSequence", "target", 1025, 1026>>
    /\ msg.phase = "idle"
    /\ msg.result.tag = "Ok"
    /\ Len(msg.result.frame[1].targets) = 1
    /\ msg.result.frame[1].targets[1].range = 5001

\* C16: no failure of the CAN engine ends the process: whatever the socket
\* delivers, read_message returns (it does not abort), and after an Err the
\* loop of stream has logged it and is back at the call of read_message.
\* Refuted: read_frame panics on a remote frame, an error frame and a data
\* frame of fewer than 8 bytes.
C16_CanFailuresRecoverable ==
    /\ msg.phase # "idle" => crashed = "none" /\ stream.pc = "read"
    /\ (msg.phase = "idle" /\ msg.result.tag = "Err") =>
          crashed = "none" /\ stream.pc = "read" /\ stream.logged > 0

\* C17: target frames are handed to the targets publisher in the order
\* they were acquired, and frame k + 1 is not read from the CAN socket
\* before frame k was handed over: whenever read_message is reading, or
\* about to be called, every frame acquired so far has been handed over.
C17_AcquisitionOrder ==
    /\ Len(stream.published) <= stream.acquired
    /\ \A k \in 1..Len(stream.published) : stream.published[k] = k
    /\ (msg.phase # "idle" \/ stream.pc = "read") =>
          Len(stream.published) = stream.acquired
    /\ stream.acquired <= Len(stream.published) + 1

\* two frames acquired and published, the second with one target
C17_Witness ==
    /\ stream.published = <<1, 2>>
    /\ stream.pc = "read"
    /\ msg.prev = <<"Ok">>
    /\ msg.result.tag = "Ok"
    /\ Len(msg.result.frame[1].targets) = 1

\* the window of the cluster message published last holds frames acquired
\* at or before the frame it was computed for
ClusterWindowUpTo ==
    stream.cluster # <<>> =>
        \A j \in 1..Len(stream.cluster[1].window) :
            stream.cluster[1].window[j] <= stream.cluster[1].frame

\* C18: with clustering on, in every interleaving the cluster message for
\* frame f is built from a window of frames acquired at or before f, and it
\* is published after the raw targets of frame f were published.  Refuted:
\* stream sends frame f to the worker before it publishes f's raw targets.
C18_ClustersAfterTargets ==
    /\ ClusterWindowUpTo
    /\ stream.cluster # <<>> => stream.cluster[1].frame <= stream.cluster[1].published

\* stream waits at tx.send: the channel is full
SendWaits == stream.pc = "send" /\ Len(stream.chan) = CLUSTER_CHANNEL

\* stream is at tx.send and the worker's receiver is gone: unwrap panics
SendFails == stream.pc = "send" /\ stream.rx = "dead"

\* C19: the main loop and the clustering worker run independently: if the
\* worker stops consuming while frames keep arriving, the main loop still
\* publishes every frame it acquires, so its tx.send never has to wait for
\* the worker and never fails.  Refuted: tx.send(..).await.unwrap() waits
\* once 16 frames are queued and panics when the worker has ended.
C19_MainLoopIndependent == ~SendWaits /\ ~SendFails

\* the channel never holds more than its capacity
QueueWithinCapacity == Len(net.queue) <= INGRESS_CHANNEL

\* an ingress task is at tx.send and the channel is full: it waits for
\* cube_loop
IngressWaits == \E p \in Ports : net.pc[p] = "send" /\ Len(net.queue) = INGRESS_CHANNEL

\* C20: when the channel between the ingress tasks and the reassembler is
\* full and a chunk arrives, the oldest queued chunk is dropped, so that an
\* ingress task never waits for the consumer, and the channel never holds
\* more than 128 chunks.  Refuted: tx.send waits, nothing is dropped.
C20_IngressNeverWaits == QueueWithinCapacity /\ ~IngressWaits

\* C21: with START_OF_FRAMEs of increasing frame_counter the frame
\* counters published on the cube topic are strictly increasing, and a cube
\* the reader returns is handed to the publisher exactly if its
\* missing_data is 0; nothing is published for an error or for no cube.
C21_PublishedInOrder ==
    /\ \A i, j \in 1..Len(cubes.published) :
          i < j => cubes.published[i] < cubes.published[j]
    /\ crashed = "none" =>
          /\ cubes.ev = "published" <=> (ret.tag = "Cube" /\ ret.cube[1].missing_data = 0)
          /\ cubes.ev = "dropped" <=> (ret.tag = "Cube" /\ ret.cube[1].missing_data > 0)
          /\ cubes.ev = "published" =>
                cubes.published[Len(cubes.published)] = ret.cube[1].frame_counter

\* frames 1 and 2 were published, in that order
C21_Witness ==
    /\ cubes.published = <<1, 2>>
    /\ cubes.ev = "published"
    /\ ret.cube[1].frame_counter = 2

\* C30: while a frame is being filled a data datagram (FRAME_DATA or
\* END_OF_DATA) of another frame_counter latches FrameCounterError, moves
\* the write index to the end of the buffer and returns Ok(None); while the
\* error is latched a data datagram leaves the buffer and the latch as they
\* are and returns neither a cube nor the latched error; the next
\* FRAME_FOOTER returns FrameCounterError, emits no cube and leaves the
\* reader in its default state, so the error is returned once.
C30_Step ==
    /\ (reader.cube_header # <<>> /\ hist'.ev = "data"
            /\ hist'.dfc # reader.frame_counter) =>
          /\ reader'.error = <<Err0("FrameCounterError")>>
          /\ reader'.cube_index = Len(reader.cube)
          /\ reader'.cube = reader.cube
          /\ reader'.cube_header = reader.cube_header
          /\ ret' = RetNone
    /\ (reader.error # <<>> /\ hist'.ev = "data") =>
          /\ reader'.cube = reader.cube
          /\ reader'.cube_captured = reader.cube_captured
          /\ reader'.error = reader.error
          /\ reader'.cube_header = reader.cube_header
          /\ ret'.tag # "Cube"
          /\ ret' # RetErr(Err0("FrameCounterError"))
    /\ (reader.error # <<>> /\ hist'.ev = "footer") =>
          /\ ret' = RetErr(Err0("FrameCounterError"))
          /\ reader' = new

C30_LatchedErrorAtFooter == [][C30_Step]_vars

\* a data datagram of another frame, one more data datagram, then the
\* footer of the stored frame returned the latched error
C30_Witness ==
    /\ hist.pure /\ hist.foreign
    /\ hist.ndata = 2
    /\ hist.ev = "footer" /\ hist.ffc = hist.fc
    /\ ret = RetErr(Err0("FrameCounterError"))
    /\ reader = new

\* C29: for every configured window size W, after the clustering worker
\* received k frames its window holds the last min(k, W) of them, oldest
\* first, so its length never exceeds W.
C29_SlidingWindow ==
    LET k == win.received
        m == Min(k, win.size)
    IN  /\ Len(win.window) = m
        /\ \A i \in 1..Len(win.window) : win.window[i].id = k - m + i
        /\ Len(win.window) <= win.size

\* the same for the window sizes of at least one frame
C29_SlidingWindowPositive == win.size >= 1 => C29_SlidingWindow

\* C22: on every topic a put that returned an error was logged and left
\* the task that publishes on the topic running.
C22_PublishFailureContinues ==
    \A t \in Topics :
        pubs[t].failed > 0 => pubs[t].alive /\ pubs[t].logged = pubs[t].failed

\* the same for the topics whose put is matched: targets, clusters, cube
C22_MatchedPutsContinue ==
    \A t \in {"targets", "clusters", "cube"} :
        pubs[t].alive /\ pubs[t].logged = pubs[t].failed

\* the uuids of the tracker's live tracklets
Live == {clus.tracklets[x].id : x \in 1..Len(clus.tracklets)}

\* C23: after every call of cluster the map from tracklet uuid to cluster
\* ID is defined exactly on the live tracklets, gives no two of them the
\* same ID and gives none an ID below 1.
C23_MapIsBijection ==
    crashed = "none" =>
        /\ DOMAIN clus.track_id_to_cluster_id = Live
        /\ \A u, v \in Live :
              clus.track_id_to_cluster_id[u] = clus.track_id_to_cluster_id[v] => u = v
        /\ \A u \in Live : clus.track_id_to_cluster_id[u] >= 1
        /\ \A i, j \in 1..Len(clus.tracklets) :
              clus.tracklets[i].id = clus.tracklets[j].id => i = j

\* two tracklets live, one removed in this call and its ID freed
C23_Witness ==
    /\ Cardinality(Live) = 2
    /\ clus.expired # {}
    /\ Len(clus.freed) = Cardinality(clus.expired)

\* C24 as stated: when get_new_cluster_id finds several IDs in the free
\* list it returns the one freed most recently (pushed last).  Refuted:
\* cluster_id_queue is filled with push_back and emptied with pop_front.
C24_ReuseIsLifo ==
    \A k \in 1..Len(clus.allocs) :
        Len(clus.allocs[k].queue) >= 2 =>
            clus.allocs[k].id = clus.allocs[k].queue[Len(clus.allocs[k].queue)]

\* what get_new_cluster_id does with a free list that is not empty: it
\* returns the ID at its front, the one freed first
ReuseIsFifo ==
    \A k \in 1..Len(clus.allocs) :
        clus.allocs[k].queue # <<>> =>
            /\ clus.allocs[k].id = Head(clus.allocs[k].queue)
            /\ ~clus.allocs[k].fresh

\* C25 as stated: once a tracklet has expired and been removed (in this
\* call or before, its ID not yet reused), the next new tracklet takes its
\* ID from the free list; the high-water mark is incremented only when the
\* free list is empty.
C25_NextTakesFreedId ==
    /\ \A k \in 1..Len(clus.allocs) :
          clus.allocs[k].fresh => clus.allocs[k].queue = <<>>
    /\ (clus.allocs # <<>> /\ (clus.expired # {} \/ clus.allocs[1].queue # <<>>)) =>
          ~clus.allocs[1].fresh

\* What cluster does: the ID of a removed tracklet is in the free list from
\* the end of the call that removed it; a new tracklet takes the front of
\* the free list whenever the list is not empty at that moment, and
\* cluster_id_max is incremented (and returned) exactly when it is empty.
ReuseBeforeFresh ==
    /\ \A k \in 1..Len(clus.allocs) :
          /\ clus.allocs[k].fresh <=> clus.allocs[k].queue = <<>>
          /\ ~clus.allocs[k].fresh => clus.allocs[k].id = Head(clus.allocs[k].queue)
          /\ clus.allocs[k].fresh => clus.allocs[k].id = clus.cluster_id_max
                                                       - Cardinality({j \in k + 1..Len(clus.allocs) : clus.allocs[j].fresh})
    /\ crashed = "none" =>
          /\ {clus.freed[k].uuid : k \in 1..Len(clus.freed)} = clus.expired
          /\ \A k \in 1..Len(clus.freed) :
                \E j \in 1..Len(clus.cluster_id_queue) :
                    clus.cluster_id_queue[j] = clus.freed[k].id

\* C26: after a call at timestamp ts no live tracklet has an expiry before
\* ts; every tracklet matched in the call is live with expiry ts +
\* track_extra_lifespan; and the tracklets the tracker removed in the call
\* are out of the map, their cluster IDs in the free list, when it returns.
C26_ExpiryAndRelease ==
    crashed = "none" =>
        /\ \A x \in 1..Len(clus.tracklets) :
              /\ clus.tracklets[x].expiry >= clus.timestamp
              /\ clus.tracklets[x].id \in clus.matched =>
                    clus.tracklets[x].expiry
                        = clus.timestamp + TrackSettings_default.track_extra_lifespan
        /\ clus.matched \subseteq Live
        /\ clus.expired \cap DOMAIN clus.track_id_to_cluster_id = {}
        /\ {clus.freed[k].uuid : k \in 1..Len(clus.freed)} = clus.expired
        /\ \A k \in 1..Len(clus.freed) :
              \E j \in 1..Len(clus.cluster_id_queue) :
                  clus.cluster_id_queue[j] = clus.freed[k].id

\* in one call a tracklet was matched and another, expired, was removed
\* and its ID freed
C26_Witness ==
    /\ clus.matched # {}
    /\ clus.expired # {}
    /\ Len(clus.freed) = 1
    /\ clus.cluster_id_queue = <<clus.freed[1].id>>

\* the last call was given the frame of the call before, less than
\* track_extra_lifespan after it
Replayed == clus.calls >= 2 /\ clus.close /\ clus.frame = clus.pframe

\* C27: when the frame of the call before is fed again within
\* track_extra_lifespan, every point carries the cluster ID it was given
\* in the call before and no ID is allocated.
C27_ReplayKeepsIds ==
    (crashed = "none" /\ Replayed) =>
        /\ clus.data = clus.pdata
        /\ clus.allocs = <<>>

\* the area of the box cluster pushes for a cluster
BoxArea == box_side(clus.clustering_eps) * box_side(clus.clustering_eps)

\* the same as long as the boxes are larger than EPSILON and no frame had
\* two clusters whose boxes coincide
C27_ReplayKeepsIdsApart == (BoxArea > EPSILON /\ ~clus.tie) => C27_ReplayKeepsIds

\* the DBSCAN label of point i of the last frame
LabelOf(i) == IF clus.frame[i].cls < 0 THEN 0 ELSE clus.frame[i].cls + 1

\* the live tracklets a label's box can stand for: those at its place that
\* were matched or created in the last call
TrackOf(i) ==
    {x \in 1..Len(clus.tracklets) :
        /\ clus.tracklets[x].place = clus.frame[i].place
        /\ clus.tracklets[x].expiry
              = clus.timestamp + TrackSettings_default.track_extra_lifespan}

\* C28: cluster returns one tuple per input point, in input order; a noise
\* point carries cluster_id 0; every other point carries the ID, at least
\* 1, the map holds for a tracklet matched to or created for its cluster's
\* box in this call, two points carrying the same ID exactly if they are in
\* the same cluster; and the lookup of a label never fails.
C28_OneTuplePerPoint ==
    /\ crashed = "none"
    /\ Len(clus.data) = Len(clus.frame)
    /\ \A i \in 1..Len(clus.frame) :
          IF LabelOf(i) = 0 THEN clus.data[i] = 0
          ELSE /\ clus.data[i] >= 1
               /\ \E x \in TrackOf(i) :
                     clus.data[i] = clus.track_id_to_cluster_id[clus.tracklets[x].id]
    /\ \A i, j \in 1..Len(clus.frame) :
          (LabelOf(i) # 0 /\ LabelOf(j) # 0) =>
              (clus.data[i] = clus.data[j] <=> LabelOf(i) = LabelOf(j))

\* a frame of two clusters and noise, one cluster matched to a tracklet and
\* one given a new tracklet
C28_Witness ==
    /\ Len(clus.data) = 3
    /\ Cardinality(clus.matched) = 1
    /\ Len(clus.allocs) = 1
    /\ clus.data[1] # clus.data[2]
    /\ clus.data[1] = clus.data[3]

\* a cube is being filled
Filling(r) == r.cube_header # <<>>

\* the data datagrams of the stored frame that carry a message counter
FrameData == {d \in DataInputs : d.fc = reader.frame_counter /\ d.mc >= 0}

\* What reading any data datagram of the stored frame does while Filling:
\* with expected = previous counter + 1 mod 2^16 and gap = (received -
\* expected) mod 2^16 the copy starts gap * payload_len / 4 elements after
\* the write index, the elements skipped hold the sentinel, and
\* packets_skipped grows by gap (always, or only when the copy still starts
\* inside the buffer).
GapAdvance(always) ==
    Filling(reader) =>
        \A d \in FrameData : \A o \in read(reader, InputBytes[d]) :
            LET expected == (reader.message_counter + 1) % U16
                gap == (d.mc - expected) % U16
                at == reader.cube_index + ((gap * d.n) \div 4)
                inside == at < Len(reader.cube)
            IN  /\ o.ret = RetNone /\ o.crash = "none"
                /\ gap = 0 <=> d.mc = expected
                /\ o.st.message_counter = d.mc
                /\ o.st.cube_index = at + (IF inside THEN d.n \div 4 ELSE 0)
                /\ \A i \in (reader.cube_index + 1)..Min(at, Len(reader.cube)) :
                      o.st.cube[i] = Sentinel
                /\ o.st.packets_skipped =
                      IF always \/ inside
                      THEN (reader.packets_skipped + gap) % U16
                      ELSE reader.packets_skipped

\* C31: while Filling, with the write index still inside the buffer, a data
\* datagram is in sequence exactly if its message counter is the previous
\* one + 1 modulo 2^16; otherwise the write index advances by
\* gap * payload_len / 4 elements that keep the sentinel and gap is added
\* to packets_skipped.
C31_GapAdvance == reader.cube_index < Len(reader.cube) => GapAdvance(TRUE)

\* what the reader does: the gap is added to packets_skipped only when the
\* advanced write index is still inside the buffer
GapAdvanceInsideExtent == GapAdvance(FALSE)

\* a datagram after a gap was read while Filling and the gap was counted
GapCounted ==
    /\ Filling(reader)
    /\ hist.pure /\ hist.ev = "data" /\ hist.gaps = 1
    /\ reader.packets_skipped = 1
    /\ reader.cube_index > 0
    /\ \E i \in 1..reader.cube_index : reader.cube[i] = Sentinel

\* the footers that arrive on the footer port
Footers == {d \in FooterInputs : d.x = "ok"}

\* C32: at FRAME_FOOTER with a cube in flight a latched error is surfaced, a
\* footer of another frame gives FrameCounterError, a write index below the
\* buffer length gives MissingCubeData(write_index, buffer_len); a cube is
\* emitted only when none of these applies, and the reader is then Idle.
C32_FooterOutcome ==
    Filling(reader) =>
        \A d \in Footers : \A o \in read(reader, InputBytes[d]) :
            LET latched == reader.error # <<>>
                foreign == d.fc # reader.frame_counter
                short == reader.cube_index < Len(reader.cube)
            IN  /\ latched => o.ret = RetErr(reader.error[1]) /\ o.crash = "none"
                /\ foreign => o.ret = RetErr(Err0("FrameCounterError")) /\ o.crash = "none"
                /\ (~latched /\ ~foreign /\ short) =>
                       /\ o.crash = "none"
                       /\ o.ret = RetErr(Err2("MissingCubeData", reader.cube_index, Len(reader.cube)))
                /\ (~latched /\ ~foreign /\ ~short) => o.ret.tag = "Cube" \/ o.crash # "none"
                /\ o.ret.tag = "Cube" => ~latched /\ ~foreign /\ ~short /\ Idle(o.st)

\* a footer found a complete cube in flight and emitted it
C32_Witness ==
    /\ hist.ev = "footer" /\ hist.active /\ hist.fok
    /\ Emitted /\ Idle(reader)
    /\ EmittedCube.frame_counter = hist.ffc

\* C33: without a cube header (Idle) every FRAME_DATA and END_OF_DATA
\* datagram is dropped, read returns Ok(None) and leaves the reader as it
\* was; the next FRAME_FOOTER returns CubeHeaderMissing and emits no cube.
C33_IdleDropsData ==
    reader.cube_header = <<>> =>
        /\ \A d \in DataInputs :
               read(reader, InputBytes[d]) = {Done(reader, RetNone)}
        /\ \A d \in FooterInputs :
               read(reader, InputBytes[d]) = {Done(new, RetErr(Err0("CubeHeaderMissing")))}

\* a data datagram was read in Idle and dropped
C33_Witness ==
    /\ hist.ev = "data" /\ ~hist.active /\ hist.ndata > 0
    /\ Idle(reader) /\ reader = new
    /\ ret = RetNone /\ crashed = "none"

\* C34: for every data datagram of the stored frame read while Filling the
\* elements copied are min(payload elements, buffer_len - write_index), the
\* buffer keeps its length and changes nowhere else, the captured elements
\* never exceed the cube volume, and once the write index has reached
\* buffer_len data datagrams change neither the buffer nor packets_captured.
C34_PastExtentDiscarded ==
    (crashed = "none" /\ Filling(reader)) =>
        /\ reader.cube_captured <= Len(reader.cube)
        /\ Len(reader.cube) = volume(reader.cube_header[1]).v
        /\ \A d \in FrameData : \A o \in read(reader, InputBytes[d]) :
               LET payload == chunks(debug_payload(debug_header(InputBytes[d])))
                   gap == (d.mc - (reader.message_counter + 1)) % U16
                   at == reader.cube_index + ((gap * d.n) \div 4)
                   copied == IF at < Len(reader.cube)
                             THEN Min(Len(payload), Len(reader.cube) - at) ELSE 0
               IN  /\ Len(o.st.cube) = Len(reader.cube)
                   /\ o.st.cube_captured = reader.cube_captured + copied
                   /\ o.st.cube_captured <= Len(o.st.cube)
                   /\ \A i \in 1..Len(o.st.cube) :
                          o.st.cube[i] = IF at < i /\ i <= at + copied
                                         THEN payload[i - at] ELSE reader.cube[i]
        /\ reader.cube_index >= Len(reader.cube) =>
               \A d \in DataInputs : \A o \in read(reader, InputBytes[d]) :
                   /\ o.st.cube = reader.cube
                   /\ o.st.packets_captured = reader.packets_captured
                   /\ o.st.cube_captured = reader.cube_captured

\* a data datagram in sequence whose payload crossed the end of the cube was
\* read: the write index is past the buffer, the buffer is full
C34_Witness ==
    /\ Filling(reader)
    /\ hist.pure /\ hist.ev = "data" /\ hist.gaps = 0 /\ ~hist.foreign
    /\ reader.cube_index > Len(reader.cube)
    /\ reader.cube_captured = Len(reader.cube)
    /\ reader.packets_captured >= 2

\* the elements of a buffer that a datagram wrote
Written(cube) == {i \in 1..Len(cube) : cube[i] # Sentinel}

\* in the current state: the stored elements carry the stored frame_counter,
\* a data datagram changes only elements of its own frame_counter and never
\* the stored frame_counter, an emitting footer carries the stored
\* frame_counter and emits it with elements of that frame alone, and a
\* START_OF_FRAME stores its own frame_counter and elements
NoMixedFrames ==
    /\ (crashed = "none" /\ Filling(reader)) =>
          /\ \A i \in Written(reader.cube) :
                 SampleFrame(reader.cube[i]) = reader.frame_counter
          /\ \A d \in DataInputs : \A o \in read(reader, InputBytes[d]) :
                 /\ o.st.frame_counter = reader.frame_counter
                 /\ d.fc # reader.frame_counter => o.st.cube = reader.cube
                 /\ \A i \in Written(o.st.cube) :
                        o.st.cube[i] # reader.cube[i] => SampleFrame(o.st.cube[i]) = d.fc
          /\ \A d \in Footers : \A o \in read(reader, InputBytes[d]) :
                 o.ret.tag = "Cube" =>
                     /\ d.fc = reader.frame_counter
                     /\ o.ret.cube[1].frame_counter = reader.frame_counter
                     /\ \A i \in Written(o.ret.cube[1].data) :
                            SampleFrame(o.ret.cube[1].data[i]) = d.fc
    /\ crashed = "none" =>
          \A d \in StartInputs : \A o \in read(reader, InputBytes[d]) :
              (o.crash = "none" /\ Filling(o.st)) =>
                  /\ o.st.frame_counter = d.fc
                  /\ \A i \in Written(o.st.cube) : SampleFrame(o.st.cube[i]) = d.fc

\* C35: no emitted cube mixes frames: in every reachable state,
\* START_OF_FRAME records its frame_counter, every element written until the
\* emitting footer comes from a datagram carrying it, the emitting footer
\* carries it, and it is the frame_counter of the cube.
C35_NoMixedFrames == [](NoMixedFrames)

\* a cube with written elements was emitted for a frame whose START_OF_FRAME
\* replaced the unfinished cube of another frame
C35_Witness ==
    /\ Emitted /\ hist.ev = "footer" /\ hist.pure /\ hist.switched
    /\ hist.ffc = EmittedCube.frame_counter
    /\ Written(EmittedCube.data) # {}

\* the data datagrams of the stored frame whose message counter is not
\* greater than the one read last
Stale == {d \in FrameData : d.mc <= reader.message_counter}

\* C37: a data datagram whose message counter is not greater than the
\* previous one is taken as a forward gap of (received - expected) mod 2^16
\* datagrams; when the offset of that gap is at least the cube length the
\* write index jumps from inside the buffer to or past its end,
\* packets_skipped is not increased, all later data of the frame is
\* discarded, and the footer of the frame returns no error: it emits a cube
\* with missing_data > 0.
C37_StaleCounterJump ==
    (crashed = "none" /\ Filling(reader) /\ reader.error = <<>>
        /\ reader.cube_index < Len(reader.cube)) =>
        \A d \in Stale : \A o \in read(reader, InputBytes[d]) :
            LET gap == (d.mc - (reader.message_counter + 1)) % U16
                offset == (gap * d.n) \div 4
            IN  /\ gap = U16 - 1 - (reader.message_counter - d.mc)
                /\ Len(reader.cube) <= offset =>
                      /\ o.ret = RetNone /\ o.crash = "none"
                      /\ o.st.cube_index = reader.cube_index + offset
                      /\ o.st.cube_index >= Len(o.st.cube)
                      /\ o.st.packets_skipped = reader.packets_skipped
                      /\ o.st.cube = reader.cube
                      /\ \A e \in DataInputs : \A p \in read(o.st, InputBytes[e]) :
                             p.st.cube = reader.cube /\ p.st.cube_index >= Len(p.st.cube)
                      /\ \A f \in Footers : \A p \in read(o.st, InputBytes[f]) :
                             f.fc = reader.frame_counter =>
                                 /\ p.ret.tag # "Err"
                                 /\ p.crash = "none" =>
                                        /\ p.ret.tag = "Cube"
                                        /\ p.ret.cube[1].missing_data > 0
                                        /\ p.ret.cube[1].packets_skipped
                                               = reader.packets_skipped

\* a cube with missing data and no packet counted as skipped was emitted for
\* a frame in which a datagram repeated the message counter of the START
C37_Witness ==
    /\ Emitted /\ hist.ev = "footer" /\ hist.pure
    /\ hist.ndata = 1 /\ hist.next = 1
    /\ hist.gaps = 1 /\ ~hist.gap1
    /\ hist.gapAt < Len(EmittedCube.data)
    /\ EmittedCube.missing_data > 0
    /\ EmittedCube.packets_skipped = 0

\* the elements a datagram carries
Elements(d) == IF d.k = "start" THEN d.n ELSE d.n \div 4

RECURSIVE Offered(_, _)
\* the elements the first i datagrams of a frame carry
Offered(pkts, i) == IF i = 0 THEN 0 ELSE Offered(pkts, i - 1) + Elements(pkts[i])

\* the datagrams sent for frame fc on port 50005, in the order sent
SentFrame(fc) == SelectSeq(net.plan[5], LAMBDA d : d.fc = fc)

\* the last datagram of frame fc that writes inside the cube extent
LastInExtent(fc) ==
    LET pkts == SentFrame(fc)
        sh == pkts[1].sh
        inside == {i \in 1..Len(pkts) :
                      Offered(pkts, i - 1) < sh[1] * sh[2] * sh[3] * sh[4]}
    IN  pkts[CHOOSE i \in inside : \A j \in inside : j <= i]

Range(s) == {s[i] : i \in 1..Len(s)}

\* cube_loop read the footer of frame fc as its i-th datagram, after the
\* START_OF_FRAME of the frame and before its last in-extent data datagram
OvertakenAt(fc, i) ==
    /\ SentFrame(fc) # <<>>
    /\ net.order[i] = Footer(fc)
    /\ SentFrame(fc)[1] \in Range(SubSeq(net.order, 1, i - 1))
    /\ LastInExtent(fc) \notin Range(SubSeq(net.order, 1, i - 1))

\* frame fc is in flight when the i-th datagram is read: no footer was read
\* since the START_OF_FRAME of the frame
InFlightAt(fc, i) ==
    \E s \in 1..(i - 1) :
        /\ net.order[s] = SentFrame(fc)[1]
        /\ \A j \in (s + 1)..(i - 1) : net.order[j].k # "footer"

\* C36: the two ingress tasks feed one queue; the order of the datagrams is
\* kept within a port only.  When cube_loop reads the FRAME_FOOTER of a
\* frame in flight before the last in-extent data datagram of that frame,
\* read returns MissingCubeData for the footer, the reader is not reset, and
\* no cube is ever published for the frame.
C36_FooterOvertakes ==
    /\ \A q \in Ports :
           LET got == SelectSeq(net.order, LAMBDA d : d \in Range(net.plan[q]))
           IN  got = SubSeq(net.plan[q], 1, Len(got))
    /\ \A fc \in Frames : \A i \in 1..Len(net.order) :
           OvertakenAt(fc, i) =>
               /\ fc \notin Range(cubes.published)
               /\ (i = Len(net.order) /\ InFlightAt(fc, i)) =>
                      /\ ret = RetErr(Err2("MissingCubeData", reader.cube_index,
                                           Len(reader.cube)))
                      /\ cubes.ev = "error"
                      /\ Filling(reader)
                      /\ reader.frame_counter = fc
                      /\ reader.cube_index < Len(reader.cube)
                      /\ reader.cube_index =
                             Cardinality({j \in 1..Len(reader.cube) :
                                             reader.cube[j] # Sentinel})

\* every datagram of frame 1 was received and read, its footer before its
\* last in-extent data, and no cube of frame 1 was published
C36_Witness ==
    /\ crashed = "none"
    /\ \E i \in 1..Len(net.order) : OvertakenAt(1, i) /\ InFlightAt(1, i)
    /\ Range(SentFrame(1)) \cup {Footer(1)} \subseteq Range(net.order)
    /\ 1 \notin Range(cubes.published)
    /\ reader.cube_index >= Len(reader.cube)

\* the cluster IDs held in the tracklet map
Mapped(c) == {c.track_id_to_cluster_id[u] : u \in DOMAIN c.track_id_to_cluster_id}

\* the cluster IDs in the free list
Free(c) == Range(c.cluster_id_queue)

Conserved(c) ==
    /\ Mapped(c) \cap Free(c) = {}
    /\ Cardinality(Free(c)) = Len(c.cluster_id_queue)
    /\ Mapped(c) \cup Free(c) = 1..c.cluster_id_max

\* C39: after any sequence of cluster calls the IDs in the tracklet map and
\* the IDs in the free list are disjoint, the free list has no duplicates,
\* together they are exactly 1..cluster_id_max, and cluster_id_max never
\* decreases.
C39_IdsConserved ==
    /\ [](Conserved(clus))
    /\ [][clus'.cluster_id_max >= clus.cluster_id_max]_vars

\* IDs are in the map and in the free list, and a freed ID was handed out
\* again in the last call
C39_Witness ==
    /\ crashed = "none"
    /\ clus.cluster_id_max >= 2
    /\ Mapped(clus) # {} /\ Free(clus) # {}
    /\ \E k \in 1..Len(clus.allocs) : ~clus.allocs[k].fresh

\* update ran on the inputs of the state
Updated == clus.out # <<>>

\* the tracklets update ran on
TrackInputs == IF Updated THEN clus.pre ELSE clus.tracklets

\* the boxes update matched to tracklet x
BoxesOf(x) == {i \in clus.out[1].matched : clus.out[1].info[i] = x}

\* C40: within an update, over both passes, each tracklet is matched to at
\* most one box and each box to one tracklet, a pair whose cost is
\* INVALID_MATCH is never matched, and assert!(!tracked[x]) does not fail.
C40_OneToOne ==
    Updated =>
        LET a == clus.out[1]
            s == TrackSettings_default
        IN  /\ ~a.panic /\ crashed = "none"
            /\ \A x \in 1..Len(clus.pre) : Cardinality(BoxesOf(x)) <= 1
            /\ a.tracked = {a.info[i] : i \in a.matched}
            /\ \A i \in 1..Len(clus.boxes) :
                   IF i \in a.matched
                   THEN /\ a.info[i] \in 1..Len(clus.pre)
                        /\ a.pass[i] \in {1, 2}
                        /\ box_cost(clus.pre[a.info[i]], clus.boxes[i],
                                    IF a.pass[i] = 1 THEN s.track_high_conf ELSE 0,
                                    s.track_iou) < INVALID_MATCH * 100
                        /\ clus.pre[a.info[i]].place = clus.boxes[i].place
                   ELSE a.info[i] = 0 /\ a.pass[i] = 0

\* both passes matched a box: a high-score box in the first and a low-score
\* box in the second, to different tracklets, and a third tracklet at the
\* place of one of them stayed unmatched
C40_Witness ==
    /\ Updated
    /\ \E i, j \in clus.out[1].matched :
           /\ clus.out[1].pass[i] = 1 /\ clus.out[1].pass[j] = 2
           /\ clus.out[1].info[i] # clus.out[1].info[j]
    /\ \E x \in 1..Len(clus.pre) :
           /\ x \notin clus.out[1].tracked
           /\ \E i \in clus.out[1].matched : clus.boxes[i].place = clus.pre[x].place

\* the matchings of the two passes in detail are the matchings of update,
\* and what Update left is an outcome of update
PassesAgree ==
    LET outcomes == update(TrackInputs, Len(TrackInputs), TrackSettings_default,
                           clus.boxes, clus.timestamp)
    IN  /\ {[i \in 1..Len(clus.boxes) |->
                IF u.info[i] # <<>> /\ u.info[i][1] <= Len(TrackInputs)
                THEN u.info[i][1] ELSE 0] : u \in outcomes}
           = {a.info : a \in associate(clus.boxes, TrackInputs, TrackSettings_default)}
        /\ (Updated /\ crashed = "none") =>
               \E u \in outcomes :
                   /\ u.tracklets = clus.tracklets
                   /\ u.info = clus.info
                   /\ u.uuids = clus.uuids

\* the 0x700 frames of a queue, in order
Responses(q) == SelectSeq(q, LAMBDA e : e.frame.id = RESPONSE_ID)

\* the operation returned one of the errors of a response cut short
CutShort ==
    /\ can.phase = "idle"
    /\ can.result.kind \in {"UATCRCError", "UATProtocolUnsupported", "InvalidResponseId"}
    /\ Len(can.resp) < 4

\* C38: a request that fails after fewer than four response frames returns
\* without reading the rest: the frames it did not read stay queued in the
\* order they came, and the next request takes the first 0x700 frame left
\* over as the header of its own response, whatever request that frame
\* answers.
C38_StaleResponse ==
    /\ can.rx = SubSeq(can.left \o can.reply, can.got + 1,
                       Len(can.left) + Len(can.reply))
    /\ Len(Responses(can.rx)) + Len(can.resp)
           = Len(Responses(can.left)) + Len(Responses(can.reply))
    /\ CutShort =>
           /\ can.got = Len(can.resp) + can.discarded
                          + (IF can.result.kind = "InvalidResponseId"
                                /\ can.at # "header" THEN 1 ELSE 0)
           /\ can.got <= 4
           /\ Len(can.rx) = Len(can.left) + Len(can.reply) - can.got
           /\ can.rx # <<>>
    /\ (Len(can.resp) >= 1 /\ Responses(can.left) # <<>>) =>
           /\ can.resp[1] = Responses(can.left)[1].frame.data
           /\ can.from[1] = Responses(can.left)[1].of
           /\ can.from[1] < can.calls

\* a request took a frame left over from the response to an earlier request
\* as its header, and failed on it leaving its own response queued
C38_Witness ==
    /\ can.calls >= 2
    /\ CutShort
    /\ Len(can.resp) = 1
    /\ can.from[1] < can.calls
    /\ can.left # <<>>
    /\ Len(Responses(can.rx)) >= 4

====
